---- MODULE Spec2Model ----
(***************************************************************************)
(* Order-flow / market-maker strategy core and its backtest ledgers.       *)
(*                                                                         *)
(* Decimal and float quantities of the Python source are modelled as exact *)
(* rationals <<n, d>> in lowest terms with d > 0, so that equal values are *)
(* equal tuples.                                                           *)
(***************************************************************************)
EXTENDS Integers, Sequences, FiniteSets, TLC

(***************************************************************************)
(* Exact rational arithmetic (stands for decimal.Decimal / float).         *)
(***************************************************************************)
IAbs(x) == IF x < 0 THEN -x ELSE x

RECURSIVE GCD(_, _)
GCD(a, b) == IF b = 0 THEN a ELSE IF b = 1 THEN 1 ELSE GCD(b, a % b)

Rat(n, d) ==
    IF n = 0 THEN <<0, 1>>
    ELSE IF d = 1 THEN <<n, 1>>
    ELSE LET s == IF d < 0 THEN -1 ELSE 1
             g == GCD(IAbs(n), IAbs(d))
         IN  <<(s * n) \div g, (s * d) \div g>>

R(n) == <<n, 1>>
RZero == <<0, 1>>
ROne == <<1, 1>>
\* The operations cancel common factors before they multiply, so that the
\* intermediate products stay within 32-bit machine integers.
RAddScaled(a, b, g) ==
    Rat(a[1] * (b[2] \div g) + b[1] * (a[2] \div g), (a[2] \div g) * b[2])
RAdd(a, b) ==
    IF a[1] = 0 THEN b
    ELSE IF b[1] = 0 THEN a
    ELSE IF a[2] = b[2] THEN Rat(a[1] + b[1], a[2])
    ELSE RAddScaled(a, b, GCD(a[2], b[2]))
RNeg(a) == <<-a[1], a[2]>>
RSub(a, b) == RAdd(a, RNeg(b))
RMulScaled(a, b, g1, g2) ==
    <<(a[1] \div g1) * (b[1] \div g2), (a[2] \div g2) * (b[2] \div g1)>>
RMul(a, b) ==
    IF a[1] = 0 \/ b[1] = 0 THEN <<0, 1>>
    ELSE IF a[2] = 1 /\ b[2] = 1 THEN <<a[1] * b[1], 1>>
    ELSE RMulScaled(a, b, GCD(IAbs(a[1]), b[2]), GCD(IAbs(b[1]), a[2]))
RDiv(a, b) == RMul(a, IF b[1] < 0 THEN <<-b[2], -b[1]>> ELSE <<b[2], b[1]>>)
RAbs(a) == <<IAbs(a[1]), a[2]>>
RLtScaled(a, b, g) == a[1] * (b[2] \div g) < b[1] * (a[2] \div g)
RLt(a, b) ==
    IF a[2] = b[2] THEN a[1] < b[1] ELSE RLtScaled(a, b, GCD(a[2], b[2]))
RLe(a, b) == ~RLt(b, a)
RMin(a, b) == IF RLe(a, b) THEN a ELSE b

RECURSIVE RSum(_)
RSum(s) == IF s = <<>> THEN RZero ELSE RAdd(Head(s), RSum(Tail(s)))

\* Python slice s[-k:] for k >= 1: the last k elements (all of s if shorter).
LastK(s, k) == IF Len(s) <= k THEN s ELSE SubSeq(s, Len(s) - k + 1, Len(s))

(***************************************************************************)
(* IEEE-754 binary64 values (Python float) for the places where the source *)
(* adds and divides floats and compares the result with a threshold.  A    *)
(* non-negative double is [m, e]: m its 53 significand bits, most          *)
(* significant first and m[1] = 1, and e the exponent of the last bit;     *)
(* zero has m = <<>>.  Results are rounded to nearest, ties to even.       *)
(***************************************************************************)
Zeros(k) == [i \in 1..k |-> 0]

RECURSIVE NatBits(_)
NatBits(n) == IF n = 0 THEN <<>> ELSE Append(NatBits(n \div 2), n % 2)

\* s without its leading zeros
StripZeros(s) ==
    IF \A i \in 1..Len(s) : s[i] = 0 THEN <<>>
    ELSE SubSeq(s, CHOOSE i \in 1..Len(s) : s[i] = 1 /\ \A j \in 1..(i - 1) : s[j] = 0, Len(s))

RECURSIVE AddBitsTo(_, _, _, _)
\* the sum of x[1..i], y[1..i] and a carry into position i
AddBitsTo(x, y, i, c) ==
    IF i = 0 THEN (IF c = 1 THEN <<1>> ELSE <<>>)
    ELSE IF x[i] + y[i] + c >= 2
    THEN Append(AddBitsTo(x, y, i - 1, 1), x[i] + y[i] + c - 2)
    ELSE Append(AddBitsTo(x, y, i - 1, 0), x[i] + y[i] + c)

\* the sum of two bit strings of equal length
AddBits(x, y) == AddBitsTo(x, y, Len(x), 0)

FZero == [m |-> <<>>, e |-> 0]

\* 53 bits, or 54 after a carry out of the increment, whose last bit has
\* exponent e, as a double
FNormal(inc, e) ==
    IF Len(inc) = 54 THEN [m |-> SubSeq(inc, 1, 53), e |-> e + 1]
    ELSE [m |-> inc, e |-> e]

\* keep, or keep plus one unit in the last place when up
FIncrement(keep, up, e) ==
    FNormal(IF up THEN AddBits(keep, Zeros(52) \o <<1>>) ELSE keep, e)

\* The double nearest to bits * 2^e (plus a non-zero remainder below the
\* last bit when sticky); bits has no leading zero.
FRound(bits, e, sticky) ==
    IF bits = <<>> THEN FZero
    ELSE IF Len(bits) <= 53
    THEN [m |-> bits \o Zeros(53 - Len(bits)), e |-> e - (53 - Len(bits))]
    ELSE FIncrement(SubSeq(bits, 1, 53),
                    /\ bits[54] = 1
                    /\ \/ bits[53] = 1
                       \/ sticky
                       \/ \E i \in 55..Len(bits) : bits[i] = 1,
                    e + (Len(bits) - 53))

RECURSIVE LongDivTo(_, _, _, _, _)
\* bits[i..last] divided by n > 0 with remainder rem carried in: the
\* quotient bits followed by the final remainder
LongDivTo(bits, i, last, n, rem) ==
    IF i > last THEN <<rem>>
    ELSE IF 2 * rem + bits[i] >= n
    THEN <<1>> \o LongDivTo(bits, i + 1, last, n, 2 * rem + bits[i] - n)
    ELSE <<0>> \o LongDivTo(bits, i + 1, last, n, 2 * rem + bits[i])

RECURSIVE LongDiv(_, _, _, _)
\* the same for bits[i..], worked 32 bits at a time
LongDiv(bits, i, n, rem) ==
    IF i + 31 >= Len(bits) THEN LongDivTo(bits, i, Len(bits), n, rem)
    ELSE LET r == LongDivTo(bits, i, i + 31, n, rem)
         IN  SubSeq(r, 1, 32) \o LongDiv(bits, i + 32, n, r[33])

\* The double nearest to the quotient LongDiv returned for a dividend
\* whose last bit has exponent e
FQuotient(r, e) == FRound(StripZeros(SubSeq(r, 1, Len(r) - 1)), e, r[Len(r)] # 0)

\* the k-bit string of 0 <= v < 2^k
DigitBits(v, k) == [i \in 1..k |-> (v \div 2 ^ (k - i)) % 2]

RECURSIVE FracChunks(_, _, _, _)
\* the first c * k bits of the binary fraction rem/d (rem < d, d * 2^k
\* below 2^31), k bits at a time, followed by the final remainder
FracChunks(rem, d, k, c) ==
    IF c = 0 THEN <<rem>>
    ELSE DigitBits((rem * 2 ^ k) \div d, k) \o FracChunks((rem * 2 ^ k) % d, d, k, c - 1)

\* The bits of x = n/d down to exponent -(k * c), followed by the remainder
RatBits(x, k, c) == NatBits(x[1] \div x[2]) \o FracChunks(x[1] % x[2], x[2], k, c)

\* the chunk width for a denominator d, and a number of chunks that gives
\* n/d at least 64 significant bits
ChunkWidth(d) == 30 - Len(NatBits(d))
ChunkCount(d) == ((64 + Len(NatBits(d))) \div ChunkWidth(d)) + 1

\* float(x) of the non-negative rational x = n/d: the nearest double
FromRat(x) ==
    FQuotient(RatBits(x, ChunkWidth(x[2]), ChunkCount(x[2])),
              -(ChunkWidth(x[2]) * ChunkCount(x[2])))

\* a + b
FAdd(a, b) ==
    IF a.m = <<>> THEN b
    ELSE IF b.m = <<>> THEN a
    ELSE LET lo == IF a.e < b.e THEN a.e ELSE b.e
             x == a.m \o Zeros(a.e - lo)
             y == b.m \o Zeros(b.e - lo)
             n == IF Len(x) > Len(y) THEN Len(x) ELSE Len(y)
         IN  FRound(AddBits(Zeros(n - Len(x)) \o x, Zeros(n - Len(y)) \o y), lo, FALSE)

\* a / n for an int n > 0 (a division by 1 or 2 is exact)
FDivNat(a, n) ==
    IF a.m = <<>> THEN FZero
    ELSE IF n = 1 THEN a
    ELSE IF n = 2 THEN [m |-> a.m, e |-> a.e - 1]
    ELSE FQuotient(LongDiv(a.m \o Zeros(Len(NatBits(n)) + 2), 1, n, 0),
                   a.e - (Len(NatBits(n)) + 2))

\* a < b
FLess(a, b) ==
    IF b.m = <<>> THEN FALSE
    ELSE IF a.m = <<>> THEN TRUE
    ELSE \/ a.e < b.e
         \/ /\ a.e = b.e
            /\ \E i \in 1..53 : /\ a.m[i] < b.m[i]
                                /\ \A j \in 1..(i - 1) : a.m[j] = b.m[j]

RECURSIVE FSum(_, _)
\* sum(xs) of floats, left to right, from the start value acc
FSum(xs, acc) == IF xs = <<>> THEN acc ELSE FSum(Tail(xs), FAdd(acc, Head(xs)))

(***************************************************************************)
(* Bounds of the model.                                                    *)
(***************************************************************************)
MaxConfirmTicks == 3
MaxCalls == 5

(***************************************************************************)
(* State.                                                                  *)
(***************************************************************************)
VARIABLES
    component,                  \* which part of the program this behaviour runs
    confirmation_ticks,         \* config.confirmation_ticks
    signal_strength_threshold,  \* config.signal_strength_threshold
    signal_buffer,              \* self.signal_buffer
    fed,                        \* history: every signal passed to confirm_signal
    confirmed,                  \* history: return value of the last confirm_signal
    depth,                      \* OrderBookAnalyzer.depth
    snapshots,                  \* OrderBookAnalyzer.snapshots (deque, maxlen 100)
    current_snapshot,           \* OrderBookAnalyzer.current_snapshot
    query,                      \* history: argument of the last metric call and the snapshot it used
    imbalance_ret,              \* history: last calculate_imbalance return value
    weighted_ret,               \* history: last calculate_weighted_imbalance return value
    built,                      \* history: every snapshot update_snapshot has built, in call order
    mm_config,                  \* MarketMakerStrategy.config (spread and skew options)
    mm_current_position,        \* MarketMakerStrategy.current_position
    tick_size,                  \* MarketMakerStrategy.exchange_client.config.tick_size
    quote_arg,                  \* history: snapshot argument of the last calculate_maker_prices
    quote_ret,                  \* history: outcome of the last calculate_maker_prices
    simulate_mode,              \* MarketMakerStrategy.simulate_mode
    can_cancel,                 \* hasattr(exchange_client, 'cancel_order')
    mm_running,                 \* MarketMakerStrategy.running
    active_buy_order,           \* MarketMakerStrategy.active_buy_order
    active_sell_order,          \* MarketMakerStrategy.active_sell_order
    mm_order_count_today,       \* MarketMakerStrategy.order_count_today
    iterations,                 \* number of iterations of the loop of MarketMakerStrategy.run
    shutdown_pc,                \* position inside shutdown: 0 before it, then the step to take
    exchange_calls,             \* history: orders placed, cancel_order calls and disconnects, in order
    at_shutdown,                \* history: the active orders and the length of exchange_calls when shutdown began
    via_loop,                   \* self._loop and self._loop.is_running(), as the WebSocket callback finds it
    order_book,                 \* bot.order_book: the bid and the ask dictionary (price -> size)
    best_bid,                   \* bot.best_bid
    best_ask,                   \* bot.best_ask
    order_book_ready,           \* bot.order_book_ready
    update_pc,                  \* position of the WebSocket thread inside _update_orderbook_data (0: outside)
    pending,                    \* the order_book_data the WebSocket thread is applying
    applied,                    \* history: every order_book_data applied to the end, in order
    read,                       \* history: the snapshot the quoting loop read last
    perf_trades,                \* the trades argument of PerformanceCalculator.calculate_metrics
    perf_metrics,               \* the PerformanceMetrics it returned
    initial_capital,            \* PreciseBacktestEngine / script BacktestEngine .initial_capital
    fee_rate,                   \* .fee_rate
    stop_loss_pct,              \* PreciseBacktestEngine.stop_loss_pct
    take_profit_pct,            \* PreciseBacktestEngine.take_profit_pct
    position_size,              \* .strategy.position_size
    cash,                       \* .cash
    position,                   \* .position (positive long, negative short)
    avg_entry_price,            \* .avg_entry_price
    trades,                     \* .trades
    total_trades,               \* .total_trades
    winning_trades,             \* .winning_trades
    losing_trades,              \* .losing_trades
    total_profit,               \* .total_profit
    total_fees,                 \* PreciseBacktestEngine.total_fees
    stop_loss_triggered,        \* PreciseBacktestEngine.stop_loss_triggered
    take_profit_triggered,      \* PreciseBacktestEngine.take_profit_triggered
    last_call,                  \* history: the last engine call, its arguments, result and pre-state
    equity_points,              \* PreciseBacktestEngine.equity_curve
    peak_equity,                \* PreciseBacktestEngine.peak_equity
    max_drawdown,               \* PreciseBacktestEngine.max_drawdown
    strategy,                   \* the PreciseOrderFlowStrategy of run_precise_backtest
    last_signal_time,           \* run_precise_backtest: last_signal_time
    last_trade_time,            \* run_precise_backtest: last_trade_time
    consumed,                   \* run_precise_backtest: number of historical_records iterated over
    record,                     \* run_precise_backtest: the record of the current iteration
    run_pc,                     \* run_precise_backtest: position inside the loop body
    tick_note,                  \* history: what the current iteration found and did
    bt_config,                  \* BacktestEngine.config (the fields not listed above)
    initial_balance,            \* BacktestEngine.initial_balance
    balance,                    \* BacktestEngine.balance
    current_position,           \* BacktestEngine.current_position
    position_entry_price,       \* BacktestEngine.position_entry_price
    trade_records,              \* BacktestEngine.trades (list of TradeRecord)
    signals_generated,          \* BacktestEngine.signals_generated
    signals_executed,           \* BacktestEngine.signals_executed
    equity_curve,               \* BacktestEngine.equity_curve
    monitor_trades,             \* TradeFlowMonitor.trades
    large_trades,               \* TradeFlowMonitor.large_trades
    clock,                      \* the value time.time() returns (seconds)
    clock_step,                 \* seconds of wall-clock time one loop iteration takes
    data_trades,                \* BacktestData.trades
    processed,                  \* number of data.orderbooks the loop of run has processed
    last_orderbook,             \* the HistoricalOrderBook processed last
    phase,                      \* position of run: "running", "done" or "raised"
    result,                     \* the BacktestResult run returned
    last_step,                  \* history: what the last step of run did to the ledger
    active_orders,              \* OrderFlowStrategy.active_orders
    signals_history,            \* OrderFlowStrategy.signals_history
    last_order_time,            \* OrderFlowStrategy.last_order_time
    order_count_today,          \* OrderFlowStrategy.order_count_today
    daily_pnl,                  \* OrderFlowStrategy.daily_pnl
    live_step,                  \* history: what the last iteration of OrderFlowStrategy.run did
    signal_ret                  \* what a call of generate_signal returned, with its rule trace

confVars == <<confirmation_ticks, signal_strength_threshold, signal_buffer, fed, confirmed>>
bookVars == <<depth, snapshots, current_snapshot, query, imbalance_ret, weighted_ret, built>>
makerVars == <<simulate_mode, can_cancel, mm_running, active_buy_order, active_sell_order,
              mm_order_count_today, iterations, shutdown_pc, exchange_calls, at_shutdown>>
feedVars == <<via_loop, order_book, best_bid, best_ask, order_book_ready, update_pc, pending,
             applied, read>>
quoteVars == <<mm_config, mm_current_position, tick_size, quote_arg, quote_ret, makerVars,
              feedVars>>
perfVars == <<perf_trades, perf_metrics>>
engineCfg == <<initial_capital, fee_rate, stop_loss_pct, take_profit_pct, position_size>>
engineState == <<cash, position, avg_entry_price, trades, total_trades, winning_trades,
                 losing_trades, total_profit, total_fees, stop_loss_triggered,
                 take_profit_triggered>>
runVars == <<equity_points, peak_equity, max_drawdown, strategy, last_signal_time,
             last_trade_time, consumed, record, run_pc, tick_note>>
engineVars == <<engineCfg, engineState, last_call, runVars>>
ledgerVars == <<balance, current_position, position_entry_price, trade_records,
                signals_generated, signals_executed, equity_curve>>
monitorVars == <<monitor_trades, large_trades, clock>>
backtestVars == <<bt_config, initial_balance, ledgerVars, monitorVars, clock_step,
                  data_trades, processed, last_orderbook, phase, result, last_step>>
liveVars == <<active_orders, signals_history, last_order_time, order_count_today,
             daily_pnl, live_step, signal_ret>>
vars == <<component, confVars, bookVars, quoteVars, perfVars, engineVars, backtestVars, liveVars>>

\* Optional values: None is the empty tuple, a present value x is <<x>>
None == <<>>
Some(x) == <<x>>

Directions == {"buy", "sell"}

(***************************************************************************)
(* Signal confirmation: OrderFlowStrategy.confirm_signal and               *)
(* BacktestEngine._confirm_signal (identical bodies).                      *)
(***************************************************************************)
\* A variant of the trim that keeps the oldest 2 * confirmation_ticks signals.
BufferAfterAppend_KeepsOldest(buf, sig, n) ==
    LET b == Append(buf, sig)
    IN  IF Len(b) > n * 2 THEN SubSeq(b, 1, n * 2) ELSE b

\* append, then keep only the most recent 2 * confirmation_ticks signals
BufferAfterAppend(buf, sig, n) ==
    LET b == Append(buf, sig)
    IN  IF Len(b) > n * 2 THEN LastK(b, n * 2) ELSE b

\* the arithmetic mean of the strengths, as an exact rational
MeanStrength(recent) ==
    RDiv(RSum([i \in 1..Len(recent) |-> recent[i].strength]), R(Len(recent)))

\* sum(s.strength for s in recent_signals) / len(recent_signals), in floats;
\* a strength <<n, d>> of the model is the double nearest to n/d
AvgStrength(recent) ==
    FDivNat(FSum([i \in 1..Len(recent) |-> FromRat(recent[i].strength)], FZero),
            Len(recent))

\* When mean (the exact mean of at most 16 strengths in [0, 2]) and thr (in
\* [0, 2]) are different fractions with denominators up to 2^15 they are
\* at least 2^-30 apart, while the doubles computed for them (one rounding
\* per strength, per addition, for the division and for thr, each within
\* 2^-53 relative) are within 2^-47 of them: the doubles then compare as
\* the exact values do.
ExactlyDecided(mean, recent, thr) ==
    /\ mean # thr
    /\ mean[2] <= 32768
    /\ thr[2] <= 32768
    /\ Len(recent) <= 16
    /\ \A i \in 1..Len(recent) : RLe(RZero, recent[i].strength) /\ RLe(recent[i].strength, R(2))
    /\ RLe(RZero, thr)
    /\ RLe(thr, R(2))

\* avg_strength < self.config.signal_strength_threshold, a comparison of two
\* doubles; the doubles are computed unless the exact values decide it
AvgBelowThreshold(mean, recent, thr) ==
    IF ExactlyDecided(mean, recent, thr) THEN RLt(mean, thr)
    ELSE FLess(AvgStrength(recent), FromRat(thr))

\* A faulty variant: the length test is off by one
ConfirmResult_OffByOne(buf, n, thr) ==
    IF Len(buf) <= n THEN FALSE
    ELSE LET recent == LastK(buf, n)
         IN  IF Cardinality({recent[i].direction : i \in 1..Len(recent)}) # 1 THEN FALSE
             ELSE IF AvgBelowThreshold(MeanStrength(recent), recent, thr) THEN FALSE
             ELSE TRUE

\* the value returned for the (already trimmed) buffer
ConfirmResult(buf, n, thr) ==
    IF Len(buf) < n THEN FALSE
    ELSE LET recent == LastK(buf, n)
         IN  IF Cardinality({recent[i].direction : i \in 1..Len(recent)}) # 1 THEN FALSE
             ELSE IF AvgBelowThreshold(MeanStrength(recent), recent, thr) THEN FALSE
             ELSE TRUE

StrengthSet == {Rat(7, 10), ROne}
ThresholdSet == {Rat(1, 2), Rat(7, 10), ROne, Rat(3, 2)}
SignalSet == [direction : Directions, strength : StrengthSet, price : {R(100)}]

\* the fields of the other components, untouched while one component runs
IdleConfirm ==
    /\ confirmation_ticks = 1
    /\ signal_strength_threshold = ROne
    /\ signal_buffer = <<>>
    /\ fed = <<>>
    /\ confirmed = FALSE

IdleBook ==
    /\ depth = 20
    /\ snapshots = <<>>
    /\ current_snapshot = None
    /\ query = None
    /\ imbalance_ret = None
    /\ weighted_ret = None
    /\ built = <<>>

\* RealTimeMarketMakerBot.__init__ / RealTimeOrderFlowBot.__init__: the book
\* kept from the WebSocket messages
IdleFeed ==
    /\ via_loop = FALSE
    /\ order_book = [bids |-> {}, asks |-> {}]
    /\ best_bid = None
    /\ best_ask = None
    /\ order_book_ready = FALSE
    /\ update_pc = 0
    /\ pending = None
    /\ applied = <<>>
    /\ read = None

\* MarketMakerStrategy.__init__: the order and loop state
IdleMaker ==
    /\ simulate_mode = FALSE
    /\ can_cancel = TRUE
    /\ mm_running = FALSE
    /\ active_buy_order = None
    /\ active_sell_order = None
    /\ mm_order_count_today = 0
    /\ iterations = 0
    /\ shutdown_pc = 0
    /\ exchange_calls = <<>>
    /\ at_shutdown = None

IdleQuote ==
    /\ mm_config = None
    /\ mm_current_position = RZero
    /\ tick_size = Rat(1, 100)
    /\ quote_arg = None
    /\ quote_ret = None
    /\ IdleMaker
    /\ IdleFeed

IdlePerf ==
    /\ perf_trades = <<>>
    /\ perf_metrics = None

IdleRun ==
    /\ equity_points = <<>>
    /\ peak_equity = R(10000)
    /\ max_drawdown = RZero
    /\ strategy = None
    /\ last_signal_time = 0
    /\ last_trade_time = 0
    /\ consumed = 0
    /\ record = None
    /\ run_pc = "idle"
    /\ tick_note = None

IdleEngine ==
    /\ initial_capital = R(10000)
    /\ fee_rate = Rat(5, 10000)
    /\ stop_loss_pct = Rat(2, 100)
    /\ take_profit_pct = Rat(1, 100)
    /\ position_size = Rat(1, 10)
    /\ cash = R(10000)
    /\ position = RZero
    /\ avg_entry_price = RZero
    /\ trades = <<>>
    /\ total_trades = 0
    /\ winning_trades = 0
    /\ losing_trades = 0
    /\ total_profit = RZero
    /\ total_fees = RZero
    /\ stop_loss_triggered = 0
    /\ take_profit_triggered = 0
    /\ last_call = None
    /\ IdleRun

IdleBacktest ==
    /\ bt_config = None
    /\ initial_balance = R(10000)
    /\ balance = R(10000)
    /\ current_position = RZero
    /\ position_entry_price = RZero
    /\ trade_records = <<>>
    /\ signals_generated = 0
    /\ signals_executed = 0
    /\ equity_curve = <<R(10000)>>
    /\ monitor_trades = <<>>
    /\ large_trades = <<>>
    /\ clock = 0
    /\ clock_step = 0
    /\ data_trades = <<>>
    /\ processed = 0
    /\ last_orderbook = None
    /\ phase = "idle"
    /\ result = None
    /\ last_step = None

IdleLive ==
    /\ active_orders = <<>>
    /\ signals_history = <<>>
    /\ last_order_time = 0
    /\ order_count_today = 0
    /\ daily_pnl = RZero
    /\ live_step = None
    /\ signal_ret = None

InitConfirm ==
    /\ component = "confirm"
    /\ IdleLive
    /\ IdleBook
    /\ IdleQuote
    /\ IdlePerf
    /\ IdleEngine
    /\ IdleBacktest
    /\ confirmation_ticks \in 1..MaxConfirmTicks
    /\ signal_strength_threshold \in ThresholdSet
    /\ signal_buffer = <<>>
    /\ fed = <<>>
    /\ confirmed = FALSE

confirm_signal(sig) ==
    /\ component = "confirm"
    /\ Len(fed) < MaxCalls
    /\ signal_buffer' = BufferAfterAppend(signal_buffer, sig, confirmation_ticks)
    /\ confirmed' = ConfirmResult(signal_buffer', confirmation_ticks, signal_strength_threshold)
    /\ fed' = Append(fed, sig)
    /\ UNCHANGED <<component, confirmation_ticks, signal_strength_threshold, bookVars, quoteVars, perfVars, engineVars, backtestVars, liveVars>>

NextConfirm == \E sig \in SignalSet : confirm_signal(sig)

SpecConfirm == InitConfirm /\ [][NextConfirm]_vars

\* every signal fed so far has the direction of the first and strength 1.0
AllSameFullStrength(seq) ==
    \A i \in 1..Len(seq) : seq[i].direction = seq[1].direction /\ seq[i].strength = ROne

\* C1: from an empty buffer, feeding identical-direction signals of strength 1.0
\* (threshold <= 1): the call number confirmation_ticks returns true and every
\* earlier call returns false.
C1_ConfirmedExactlyOnNthCall ==
    ( /\ component = "confirm"
      /\ fed # <<>>
      /\ Len(fed) <= confirmation_ticks
      /\ AllSameFullStrength(fed)
      /\ RLe(signal_strength_threshold, ROne) )
    => (confirmed <=> Len(fed) = confirmation_ticks)

C1_Witness ==
    /\ component = "confirm"
    /\ confirmation_ticks = 2
    /\ Len(fed) = 2
    /\ AllSameFullStrength(fed)
    /\ signal_strength_threshold = ROne
    /\ confirmed

(***************************************************************************)
(* OrderBookAnalyzer.                                                      *)
(***************************************************************************)
SnapshotHistoryMax == 100
DefaultDepthLevels == 5

\* Python slice s[:k]
FirstK(s, k) == IF Len(s) <= k THEN s ELSE SubSeq(s, 1, k)

\* raw input lists [(price, size), ...]: bids from BidTop downwards, asks from
\* AskTop upwards, with the sizes of a profile
BidTop == 100
AskTop == 101
SizeProfiles ==
    { <<>>, <<0>>, <<5>>, <<10>>, <<5, 5>>, <<10, 5>>, <<5, 10>>, <<0, 0>>,
      <<1, 1, 1, 1, 1, 7>> }
RawBids(profile) == [i \in 1..Len(profile) |-> <<R(BidTop - (i - 1)), R(profile[i])>>]
RawAsks(profile) == [i \in 1..Len(profile) |-> <<R(AskTop + (i - 1)), R(profile[i])>>]
DepthSet == {2, 20}

MakeSnapshot(bids, asks, d) ==
    LET bid_levels == [i \in 1..Len(FirstK(bids, d)) |->
                          [price |-> bids[i][1], size |-> bids[i][2], side |-> "bid"]]
        ask_levels == [i \in 1..Len(FirstK(asks, d)) |->
                          [price |-> asks[i][1], size |-> asks[i][2], side |-> "ask"]]
    IN  [ bids |-> bid_levels,
          asks |-> ask_levels,
          best_bid |-> IF bid_levels # <<>> THEN bid_levels[1].price ELSE RZero,
          best_ask |-> IF ask_levels # <<>> THEN ask_levels[1].price ELSE RZero ]

\* A faulty variant: a full deque refuses the new element
DequeAppend_KeepsOldest(q, x, maxlen) == IF Len(q) >= maxlen THEN q ELSE Append(q, x)

\* deque(maxlen=100).append
DequeAppend(q, x, maxlen) == LastK(Append(q, x), maxlen)

mid_price(snapshot) == RDiv(RAdd(snapshot.best_bid, snapshot.best_ask), R(2))
spread(snapshot) == RSub(snapshot.best_ask, snapshot.best_bid)

SizeSum(levels) == RSum([i \in 1..Len(levels) |-> levels[i].size])

\* A faulty variant: only a book with both sides empty is treated as empty
CalculateImbalance_BothEmpty(arg, current) ==
    LET opt == IF arg = None THEN current ELSE arg
        snapshot == opt[1]
    IN  IF opt = None \/ (snapshot.bids = <<>> /\ snapshot.asks = <<>>) THEN RZero
        ELSE LET bid_volume == SizeSum(snapshot.bids)
                 ask_volume == SizeSum(snapshot.asks)
                 total_volume == RAdd(bid_volume, ask_volume)
             IN  IF total_volume = RZero THEN RZero
                 ELSE RDiv(RSub(bid_volume, ask_volume), total_volume)

\* A faulty variant: the two volumes are subtracted the wrong way round
CalculateImbalance_Swapped(arg, current) ==
    LET opt == IF arg = None THEN current ELSE arg
        snapshot == opt[1]
    IN  IF opt = None \/ snapshot.bids = <<>> \/ snapshot.asks = <<>> THEN RZero
        ELSE LET bid_volume == SizeSum(snapshot.bids)
                 ask_volume == SizeSum(snapshot.asks)
                 total_volume == RAdd(bid_volume, ask_volume)
             IN  IF total_volume = RZero THEN RZero
                 ELSE RDiv(RSub(ask_volume, bid_volume), total_volume)

CalculateImbalance(arg, current) ==
    LET opt == IF arg = None THEN current ELSE arg
        snapshot == opt[1]
    IN  IF opt = None \/ snapshot.bids = <<>> \/ snapshot.asks = <<>> THEN RZero
        ELSE LET bid_volume == SizeSum(snapshot.bids)
                 ask_volume == SizeSum(snapshot.asks)
                 total_volume == RAdd(bid_volume, ask_volume)
             IN  IF total_volume = RZero THEN RZero
                 ELSE RDiv(RSub(bid_volume, ask_volume), total_volume)

\* sum over the first depth_levels levels of size * 1/(i+1), i 0-indexed
WeightedSum(levels, depth_levels) ==
    LET top == FirstK(levels, depth_levels)
    IN  RSum([i \in 1..Len(top) |-> RMul(top[i].size, RDiv(ROne, R(i)))])

CalculateWeightedImbalance(arg, current, depth_levels) ==
    LET opt == IF arg = None THEN current ELSE arg
        snapshot == opt[1]
    IN  IF opt = None \/ snapshot.bids = <<>> \/ snapshot.asks = <<>> THEN RZero
        ELSE IF mid_price(snapshot) = RZero THEN RZero
        ELSE LET bid_weighted == WeightedSum(snapshot.bids, depth_levels)
                 ask_weighted == WeightedSum(snapshot.asks, depth_levels)
                 total_weighted == RAdd(bid_weighted, ask_weighted)
             IN  IF total_weighted = RZero THEN RZero
                 ELSE RDiv(RSub(bid_weighted, ask_weighted), total_weighted)

MaxUpdates == 1

InitBook ==
    /\ component = "book"
    /\ IdleLive
    /\ IdleConfirm
    /\ IdleQuote
    /\ IdlePerf
    /\ IdleEngine
    /\ IdleBacktest
    /\ depth \in DepthSet
    /\ snapshots = <<>>
    /\ current_snapshot = None
    /\ query = None
    /\ imbalance_ret = None
    /\ weighted_ret = None
    /\ built = <<>>

update_snapshot(bids, asks) ==
    /\ component = "book"
    /\ Len(snapshots) < MaxUpdates
    /\ LET snapshot == MakeSnapshot(bids, asks, depth)
       IN  /\ current_snapshot' = Some(snapshot)
           /\ snapshots' = DequeAppend(snapshots, snapshot, SnapshotHistoryMax)
           /\ built' = Append(built, snapshot)
    /\ UNCHANGED <<component, confVars, quoteVars, perfVars, engineVars, backtestVars, liveVars, depth, query, imbalance_ret, weighted_ret>>

\* calculate_imbalance(arg) and calculate_weighted_imbalance(arg), with arg either
\* omitted (None) or a snapshot that update_snapshot returned earlier
calculate_metrics_of(arg) ==
    /\ component = "book"
    /\ query' = [arg |-> arg, used |-> IF arg = None THEN current_snapshot ELSE arg]
    /\ imbalance_ret' = CalculateImbalance(arg, current_snapshot)
    /\ weighted_ret' = CalculateWeightedImbalance(arg, current_snapshot, DefaultDepthLevels)
    /\ UNCHANGED <<component, confVars, quoteVars, perfVars, engineVars, backtestVars, liveVars, depth, snapshots, current_snapshot, built>>

NextBook ==
    \/ \E bp \in SizeProfiles, ap \in SizeProfiles : update_snapshot(RawBids(bp), RawAsks(ap))
    \/ \E arg \in {None} \cup {Some(snapshots[i]) : i \in 1..Len(snapshots)} : calculate_metrics_of(arg)

SpecBook == InitBook /\ [][NextBook]_vars

\* a metric call has returned
Queried == component = "book" /\ query # None

\* the snapshot the last metric call looked at has no bids or no asks, or there
\* was no snapshot at all
OneSideEmpty(opt) == opt = None \/ opt[1].bids = <<>> \/ opt[1].asks = <<>>

\* C7: with empty bids or empty asks, or no snapshot at all, calculate_imbalance
\* and calculate_weighted_imbalance both return exactly 0.
C7_EmptySideGivesZero ==
    (Queried /\ OneSideEmpty(query.used))
    => (imbalance_ret = RZero /\ weighted_ret = RZero)

C7_Witness ==
    /\ Queried
    /\ query.used # None
    /\ query.used[1].asks = <<>>
    /\ query.used[1].bids # <<>>
    /\ SizeSum(query.used[1].bids) = R(10)
    /\ imbalance_ret = RZero
    /\ weighted_ret = RZero

\* total bid size and total ask size of the snapshot's levels
BidTotal(opt) == SizeSum(opt[1].bids)
AskTotal(opt) == SizeSum(opt[1].asks)

\* r = (bid - ask) / (bid + ask), and r = 0 when the total volume is 0
IsVolumeRatio(r, bid, ask) ==
    IF RAdd(bid, ask) = RZero THEN r = RZero
    ELSE RMul(r, RAdd(bid, ask)) = RSub(bid, ask)

InUnitInterval(r) == RLe(RNeg(ROne), r) /\ RLe(r, ROne)

\* C8 as stated: for every snapshot calculate_imbalance returns
\* (sum bid sizes - sum ask sizes) / (sum bid sizes + sum ask sizes), a value in
\* [-1, 1], and 0 when the total volume is 0 or the two totals are equal.
C8_Original ==
    (Queried /\ query.used # None)
    => /\ IsVolumeRatio(imbalance_ret, BidTotal(query.used), AskTotal(query.used))
       /\ InUnitInterval(imbalance_ret)
       /\ (BidTotal(query.used) = AskTotal(query.used) => imbalance_ret = RZero)

\* C8 amended: the ratio is returned for a snapshot with both sides non-empty;
\* a snapshot with an empty side gives 0. The value is always in [-1, 1] and is
\* 0 for equal totals and for zero total volume.
C8_RatioWhenBothSidesPresent ==
    (Queried /\ query.used # None)
    => /\ (~OneSideEmpty(query.used)
            => IsVolumeRatio(imbalance_ret, BidTotal(query.used), AskTotal(query.used)))
       /\ (OneSideEmpty(query.used) => imbalance_ret = RZero)
       /\ InUnitInterval(imbalance_ret)
       /\ (BidTotal(query.used) = AskTotal(query.used) => imbalance_ret = RZero)

\* bids=[(100,10)], asks=[(101,5)] gives 5/15
C8_Witness ==
    /\ Queried
    /\ query.used # None
    /\ query.used[1].bids = <<[price |-> R(100), size |-> R(10), side |-> "bid"]>>
    /\ query.used[1].asks = <<[price |-> R(101), size |-> R(5), side |-> "ask"]>>
    /\ imbalance_ret = Rat(5, 15)

(***************************************************************************)
(* MarketMakerStrategy.calculate_maker_prices.                             *)
(***************************************************************************)
\* floor of a rational
RFloor(a) == a[1] \div a[2]

\* Decimal.quantize(Decimal('1')) under the default context: ROUND_HALF_EVEN
QuantizeToInteger(a) ==
    LET q == RFloor(a)
        frac == RSub(a, R(q))
        half == Rat(1, 2)
    IN  IF RLt(frac, half) THEN R(q)
        ELSE IF RLt(half, frac) THEN R(q + 1)
        ELSE IF q % 2 = 0 THEN R(q) ELSE R(q + 1)

RoundToTick(price, tick) == RMul(QuantizeToInteger(RDiv(price, tick)), tick)

\* The outcome of calculate_maker_prices: the returned pair, (None, None), or
\* the exception it raises.  `skew_adjustment * 0.5` multiplies a Decimal by a
\* float, which raises TypeError; it is evaluated in both skew branches.
CalculateMakerPrices(arg, cfg, inventory, tick) ==
    IF arg = None THEN [kind |-> "none"]
    ELSE
    LET snapshot == arg[1]
        mid == RDiv(RAdd(snapshot.best_bid, snapshot.best_ask), R(2))
        market_spread == RSub(snapshot.best_ask, snapshot.best_bid)
        wanted == IF cfg.spread_type = "fixed" THEN cfg.target_spread
                  ELSE RMul(market_spread, cfg.spread_ratio)
        target_spread == IF RLt(wanted, cfg.min_spread) THEN cfg.min_spread ELSE wanted
        bid0 == RSub(mid, RDiv(target_spread, R(2)))
        ask0 == RAdd(mid, RDiv(target_spread, R(2)))
        skew_factor == IF RLt(RZero, cfg.max_position)
                       THEN RDiv(inventory, cfg.max_position) ELSE RZero
    IN  IF cfg.inventory_skew_enabled /\ skew_factor # RZero
        THEN [kind |-> "TypeError"]
        ELSE LET bid1 == RoundToTick(bid0, tick)
                 ask1 == RoundToTick(ask0, tick)
                 bid2 == IF RLe(ask1, bid1) THEN RSub(ask1, tick) ELSE bid1
             IN  [kind |-> "prices", bid_price |-> bid2, ask_price |-> ask1]

\* best bid / best ask pairs of the snapshots quoted against (one level a side,
\* as update_orderbook builds from BBO data); none is crossed
BboSet ==
    { <<R(100), R(100)>>, <<R(100), Rat(10001, 100)>>, <<R(100), Rat(10003, 100)>>,
      <<R(100), R(101)>>, <<Rat(9999, 100), Rat(100005, 1000)>> }
BboSnapshot(bbo) == MakeSnapshot(<<<<bbo[1], R(100)>>>>, <<<<bbo[2], R(100)>>>>, 20)

MakerConfigSet ==
    [ spread_type : {"fixed", "percentage"},
      target_spread : {Rat(1, 10000), Rat(1, 10)},
      spread_ratio : {Rat(1, 2)},
      min_spread : {Rat(1, 10000), Rat(1, 100)},
      inventory_skew_enabled : BOOLEAN,
      inventory_skew_factor : {Rat(3, 10)},
      max_position : {ROne} ]

\* positions within [-max_position, max_position]
MakerPositionSet == {RNeg(ROne), Rat(-1, 2), RZero, Rat(1, 2), ROne}

InitQuote ==
    /\ component = "quote"
    /\ IdleLive
    /\ IdleConfirm
    /\ IdleBook
    /\ IdlePerf
    /\ IdleEngine
    /\ IdleBacktest
    /\ mm_config \in MakerConfigSet
    /\ mm_current_position \in MakerPositionSet
    /\ tick_size \in {Rat(1, 100), Rat(1, 10)}
    /\ quote_arg = None
    /\ quote_ret = None
    /\ IdleMaker
    /\ IdleFeed

calculate_maker_prices(arg) ==
    /\ component = "quote"
    /\ quote_arg' = arg
    /\ quote_ret' = CalculateMakerPrices(arg, mm_config, mm_current_position, tick_size)
    /\ UNCHANGED <<component, confVars, bookVars, perfVars, engineVars, backtestVars, liveVars, mm_config, mm_current_position, tick_size, makerVars, feedVars>>

NextQuote == \E bbo \in BboSet : calculate_maker_prices(Some(BboSnapshot(bbo)))

SpecQuote == InitQuote /\ [][NextQuote]_vars

\* C6: for every non-crossed snapshot, every spread configuration and every
\* position within [-max_position, max_position], with skew enabled or not,
\* calculate_maker_prices returns a pair with bid_price < ask_price.
C6_BidBelowAsk ==
    (component = "quote" /\ quote_ret # None)
    => /\ quote_ret.kind = "prices"
       /\ RLt(quote_ret.bid_price, quote_ret.ask_price)

(***************************************************************************)
(* PerformanceCalculator.calculate_metrics.                                *)
(***************************************************************************)
DefaultInitialBalance == 10000
MaxPerfTrades == 4

IsWin(pnl) == RLt(RZero, pnl)
IsLoss(pnl) == RLt(pnl, RZero)
IsWinOrTie(pnl) == RLe(RZero, pnl)

\* A faulty variant: a zero-pnl trade is counted as winning
WinningTrades_TiesWin(ts) == Cardinality({i \in 1..Len(ts) : IsWinOrTie(ts[i].pnl)})

\* sum(1 for t in trades if t.pnl > 0); `ts` is the argument `trades`
WinningTrades(ts) == Cardinality({i \in 1..Len(ts) : IsWin(ts[i].pnl)})
\* sum(1 for t in trades if t.pnl < 0)
LosingTrades(ts) == Cardinality({i \in 1..Len(ts) : IsLoss(ts[i].pnl)})

\* the equity_curve list of calculate_metrics: the running balance after each
\* trade (the initial balance itself is not a point of the list)
EquityCurve(ts, initial) ==
    [i \in 1..Len(ts) |-> RAdd(initial, RSum([j \in 1..i |-> ts[j].pnl]))]

\* A faulty variant: the loop looks for the largest equity - peak instead
DrawdownOf_Inverted(peak, equity) ==
    IF RLt(RZero, peak) THEN RDiv(RSub(equity, peak), peak) ELSE RZero

\* dd = (peak - equity) / peak if peak > 0 else 0.0
DrawdownOf(peak, equity) ==
    IF RLt(RZero, peak) THEN RDiv(RSub(peak, equity), peak) ELSE RZero

\* one pass of the loop of _calculate_drawdown; D holds its local variables
DrawdownStep(D, equity, timestamp) ==
    IF RLt(D.peak, equity)
    THEN [ D EXCEPT !.peak = equity, !.dd_start_time = None ]
    ELSE LET dd == DrawdownOf(D.peak, equity)
             deeper == RLt(D.max_dd, dd)
             start == IF deeper /\ D.dd_start_time = None
                      THEN Some(timestamp) ELSE D.dd_start_time
             duration == IF start # None THEN timestamp - start[1] ELSE 0
         IN  [ D EXCEPT !.max_dd = IF deeper THEN dd ELSE @,
                        !.dd_start_time = start,
                        !.max_dd_duration =
                            IF start # None /\ start[1] # 0 /\ duration > @
                            THEN duration ELSE @ ]

RECURSIVE DrawdownLoop(_, _, _, _)
DrawdownLoop(D, curve, ts, i) ==
    IF i > Len(curve) THEN D
    ELSE DrawdownLoop(DrawdownStep(D, curve[i], ts[i].timestamp), curve, ts,
                      i + 1)

\* _calculate_drawdown(equity_curve, trades); `curve` is the argument equity_curve
CalculateDrawdown(curve, ts) ==
    IF curve = <<>>
    THEN [ max_dd |-> RZero, max_dd_duration |-> 0 ]
    ELSE LET D == DrawdownLoop([ peak |-> curve[1], max_dd |-> RZero,
                                 dd_start_time |-> None, max_dd_duration |-> 0 ],
                               curve, ts, 1)
         IN  [ max_dd |-> D.max_dd, max_dd_duration |-> D.max_dd_duration ]

CalculateMetrics(ts, initial) ==
    IF ts = <<>>
    THEN [ total_trades |-> 0, winning_trades |-> 0, losing_trades |-> 0,
           win_rate |-> RZero, total_pnl |-> RZero, total_return |-> RZero,
           max_drawdown |-> RZero, max_drawdown_duration |-> 0 ]
    ELSE LET n_total == Len(ts)
             n_winning == WinningTrades(ts)
             n_losing == LosingTrades(ts)
             total_pnl == RSum([i \in 1..Len(ts) |-> ts[i].pnl])
         IN  [ total_trades |-> n_total,
               winning_trades |-> n_winning,
               losing_trades |-> n_losing,
               win_rate |-> IF n_total > 0
                            THEN Rat(n_winning, n_total) ELSE RZero,
               total_pnl |-> total_pnl,
               total_return |-> IF RLt(RZero, initial)
                                THEN RDiv(total_pnl, initial) ELSE RZero,
               max_drawdown |-> CalculateDrawdown(EquityCurve(ts, initial), ts).max_dd,
               max_drawdown_duration |->
                   CalculateDrawdown(EquityCurve(ts, initial), ts).max_dd_duration ]

PnlSet == {R(-3), RZero, R(2)}

InitPerf ==
    /\ component = "perf"
    /\ IdleLive
    /\ IdleConfirm
    /\ IdleBook
    /\ IdleQuote
    /\ IdleEngine
    /\ IdleBacktest
    /\ perf_trades = <<>>
    /\ perf_metrics = None

\* the caller's list of TradeRecords grows by one record
append_trade_record(pnl) ==
    /\ component = "perf"
    /\ Len(perf_trades) < MaxPerfTrades
    /\ perf_trades' = Append(perf_trades,
                             [timestamp |-> 10 * (Len(perf_trades) + 1), pnl |-> pnl])
    /\ perf_metrics' = None
    /\ UNCHANGED <<component, confVars, bookVars, quoteVars, engineVars, backtestVars, liveVars>>

calculate_metrics ==
    /\ component = "perf"
    /\ perf_metrics' = Some(CalculateMetrics(perf_trades, R(DefaultInitialBalance)))
    /\ UNCHANGED <<component, confVars, bookVars, quoteVars, engineVars, backtestVars, liveVars, perf_trades>>

NextPerf ==
    \/ \E pnl \in PnlSet : append_trade_record(pnl)
    \/ calculate_metrics

SpecPerf == InitPerf /\ [][NextPerf]_vars

\* C9: for a non-empty trade sequence win_rate is in [0, 1] and
\* winning_trades + losing_trades <= total_trades; the zero-pnl trades are
\* exactly the ones counted neither as winning nor as losing.
C9_WinRateAndCounts ==
    (component = "perf" /\ perf_metrics # None /\ perf_trades # <<>>)
    => LET m == perf_metrics[1]
           ties == Cardinality({i \in 1..Len(perf_trades) : perf_trades[i].pnl = RZero})
       IN  /\ RLe(RZero, m.win_rate) /\ RLe(m.win_rate, ROne)
           /\ m.winning_trades + m.losing_trades <= m.total_trades
           /\ m.total_trades - (m.winning_trades + m.losing_trades) = ties

\* a sequence with a win, a loss and a tie
C9_Witness ==
    /\ component = "perf"
    /\ perf_metrics # None
    /\ Len(perf_trades) = 3
    /\ perf_metrics[1].winning_trades = 1
    /\ perf_metrics[1].losing_trades = 1
    /\ perf_metrics[1].total_trades = 3
    /\ perf_metrics[1].win_rate = Rat(1, 3)

(***************************************************************************)
(* The fee-charging ledgers of the backtest scripts:                       *)
(* PreciseBacktestEngine (scripts/test/test_edgex_precise_backtest.py) and *)
(* BacktestEngine (scripts/test/test_edgex_strategy_backtest.py).  Both    *)
(* keep the same fields, so they share the engine variables; `component`   *)
(* says which class the behaviour runs.  Decimal values are exact          *)
(* rationals; the float() copies stored in trade records keep the exact    *)
(* value (binary rounding of the copies is not modelled).                  *)
(***************************************************************************)
Engine ==
    [ cash |-> cash, position |-> position, avg_entry_price |-> avg_entry_price,
      trades |-> trades, total_trades |-> total_trades,
      winning_trades |-> winning_trades, losing_trades |-> losing_trades,
      total_profit |-> total_profit, total_fees |-> total_fees,
      stop_loss_triggered |-> stop_loss_triggered,
      take_profit_triggered |-> take_profit_triggered ]

EngineConfig ==
    [ fee_rate |-> fee_rate, stop_loss_pct |-> stop_loss_pct,
      take_profit_pct |-> take_profit_pct, position_size |-> position_size ]

\* The trade dict; a key the code leaves out is None here.
TradeDict(timestamp, type, price, size, fee, position_after, cash_after, pnl, close_reason, entry_price) ==
    [ timestamp |-> timestamp, type |-> type, price |-> price, size |-> size,
      fee |-> fee, position_after |-> position_after, cash_after |-> cash_after,
      pnl |-> pnl, close_reason |-> close_reason, entry_price |-> entry_price ]

\* A variant of the fee that leaves out the size.
TradeFee_OnPrice(price, size, rate) == RMul(price, rate)

\* fee = exec_price * size * self.fee_rate
TradeFee(price, size, rate) == RMul(RMul(price, size), rate)

\* winning_trades / losing_trades after `if pnl > 0: ... else: ...`
CountWin(e, pnl) == IF RLt(RZero, pnl) THEN e.winning_trades + 1 ELSE e.winning_trades
CountLose(e, pnl) == IF RLt(RZero, pnl) THEN e.losing_trades ELSE e.losing_trades + 1

\* PreciseBacktestEngine.execute_trade, direction == 'buy', cost <= cash
PreciseBuy(e, c, exec_price, timestamp) ==
    LET size == c.position_size
        fee == TradeFee(exec_price, size, c.fee_rate)
        cost == RAdd(RMul(exec_price, size), fee)
        cash1 == RSub(e.cash, cost)
        closing == RLt(e.position, RZero)
        closed_size == RMin(size, RAbs(e.position))
        pnl == RSub(RMul(RSub(e.avg_entry_price, exec_price), closed_size), fee)
        pos1 == RAdd(e.position, closed_size)
        remaining == RSub(size, closed_size)
        avg_close == IF RLt(RZero, remaining)
                     THEN IF pos1 = RZero THEN exec_price
                          ELSE RDiv(RAdd(RMul(e.avg_entry_price, pos1),
                                         RMul(exec_price, remaining)),
                                    RAdd(pos1, remaining))
                     ELSE e.avg_entry_price
        pos_close == IF RLt(RZero, remaining) THEN RAdd(pos1, remaining) ELSE pos1
        avg_open == IF e.position = RZero THEN exec_price
                    ELSE RDiv(RAdd(RMul(e.avg_entry_price, e.position),
                                   RMul(exec_price, size)),
                              RAdd(e.position, size))
        pos_open == RAdd(e.position, size)
        pos2 == IF closing THEN pos_close ELSE pos_open
        avg2 == IF closing THEN avg_close ELSE avg_open
        trade == TradeDict(timestamp, "BUY", exec_price, size, fee, pos2, cash1,
                           IF RLt(pos2, RZero) THEN Some(pnl) ELSE None, None, None)
    IN  [ ok |-> TRUE,
          pnl |-> IF closing THEN Some(pnl) ELSE None,
          e |-> [ e EXCEPT !.cash = cash1,
                           !.total_fees = RAdd(e.total_fees, fee),
                           !.total_profit = IF closing THEN RAdd(e.total_profit, pnl)
                                            ELSE e.total_profit,
                           !.winning_trades = IF closing THEN CountWin(e, pnl)
                                              ELSE e.winning_trades,
                           !.losing_trades = IF closing THEN CountLose(e, pnl)
                                             ELSE e.losing_trades,
                           !.position = pos2,
                           !.avg_entry_price = avg2,
                           !.trades = Append(e.trades, trade),
                           !.total_trades = e.total_trades + 1 ] ]

\* PreciseBacktestEngine.execute_trade, direction != 'buy'
PreciseSell(e, c, exec_price, timestamp) ==
    LET size == c.position_size
        fee == TradeFee(exec_price, size, c.fee_rate)
        closing == RLt(RZero, e.position)
        closed_size == RMin(size, e.position)
        revenue_close == RSub(RMul(exec_price, closed_size), fee)
        pnl == RSub(RMul(RSub(exec_price, e.avg_entry_price), closed_size), fee)
        pos1 == RSub(e.position, closed_size)
        remaining == RSub(size, closed_size)
        avg_close == IF RLt(RZero, remaining) THEN exec_price
                     ELSE IF pos1 = RZero THEN RZero ELSE e.avg_entry_price
        pos_close == IF RLt(RZero, remaining) THEN RSub(pos1, remaining) ELSE pos1
        revenue_open == RSub(RMul(exec_price, size), fee)
        avg_open == IF e.position = RZero THEN exec_price
                    ELSE RDiv(RAdd(RAbs(RMul(e.avg_entry_price, e.position)),
                                   RMul(exec_price, size)),
                              RAdd(RAbs(e.position), size))
        pos_open == RSub(e.position, size)
        cash1 == RAdd(e.cash, IF closing THEN revenue_close ELSE revenue_open)
        pos2 == IF closing THEN pos_close ELSE pos_open
        avg2 == IF closing THEN avg_close ELSE avg_open
        trade == TradeDict(timestamp, "SELL", exec_price, size, fee, pos2, cash1,
                           IF RLt(RZero, pos2) THEN Some(pnl) ELSE None, None, None)
    IN  [ ok |-> TRUE,
          pnl |-> IF closing THEN Some(pnl) ELSE None,
          e |-> [ e EXCEPT !.cash = cash1,
                           !.total_fees = RAdd(e.total_fees, fee),
                           !.total_profit = IF closing THEN RAdd(e.total_profit, pnl)
                                            ELSE e.total_profit,
                           !.winning_trades = IF closing THEN CountWin(e, pnl)
                                              ELSE e.winning_trades,
                           !.losing_trades = IF closing THEN CountLose(e, pnl)
                                             ELSE e.losing_trades,
                           !.position = pos2,
                           !.avg_entry_price = avg2,
                           !.trades = Append(e.trades, trade),
                           !.total_trades = e.total_trades + 1 ] ]

\* A faulty variant: the fill size is not fixed, a sell fills half a
\* position_size
PreciseExecuteTrade_HalfSells(e, c, signal, timestamp) ==
    LET exec_price == signal.price
        size == c.position_size
        fee == TradeFee(exec_price, size, c.fee_rate)
        cost == RAdd(RMul(exec_price, size), fee)
    IN  IF signal.direction = "buy"
        THEN IF RLe(cost, e.cash) THEN PreciseBuy(e, c, exec_price, timestamp)
             ELSE [ok |-> FALSE, pnl |-> None, e |-> e]
        ELSE PreciseSell(e, [c EXCEPT !.position_size = RMul(Rat(1, 2), @)], exec_price,
                         timestamp)

\* PreciseBacktestEngine.execute_trade: the returned flag, the pnl it
\* computed (None when the fill closed nothing) and the engine afterwards.
PreciseExecuteTrade(e, c, signal, timestamp) ==
    LET exec_price == signal.price
        size == c.position_size
        fee == TradeFee(exec_price, size, c.fee_rate)
        cost == RAdd(RMul(exec_price, size), fee)
    IN  IF signal.direction = "buy"
        THEN IF RLe(cost, e.cash) THEN PreciseBuy(e, c, exec_price, timestamp)
             ELSE [ok |-> FALSE, pnl |-> None, e |-> e]
        ELSE PreciseSell(e, c, exec_price, timestamp)

\* PreciseBacktestEngine.calculate_equity
CalculateEquity(e, current_price) == RAdd(e.cash, RMul(current_price, e.position))

\* A variant of the close reason that knows the take-profit only.
CloseReason_TakeProfitOnly(e, c, current_price) ==
    LET price_change_pct == RDiv(RSub(current_price, e.avg_entry_price), e.avg_entry_price)
    IN  IF RLt(RZero, e.position)
        THEN IF RLe(c.take_profit_pct, price_change_pct) THEN "TAKE_PROFIT" ELSE ""
        ELSE IF RLt(e.position, RZero)
        THEN IF RLe(price_change_pct, RNeg(c.take_profit_pct)) THEN "TAKE_PROFIT" ELSE ""
        ELSE ""

\* A variant of the close reason whose thresholds must be passed, not reached.
CloseReason_Strict(e, c, current_price) ==
    LET price_change_pct == RDiv(RSub(current_price, e.avg_entry_price), e.avg_entry_price)
    IN  IF RLt(RZero, e.position)
        THEN IF RLt(c.take_profit_pct, price_change_pct) THEN "TAKE_PROFIT"
             ELSE IF RLt(price_change_pct, RNeg(c.stop_loss_pct)) THEN "STOP_LOSS"
             ELSE ""
        ELSE IF RLt(e.position, RZero)
        THEN IF RLt(price_change_pct, RNeg(c.take_profit_pct)) THEN "TAKE_PROFIT"
             ELSE IF RLt(c.stop_loss_pct, price_change_pct) THEN "STOP_LOSS"
             ELSE ""
        ELSE ""

\* The close reason check_stop_loss_take_profit decides on, or "" for none.
CloseReason(e, c, current_price) ==
    LET price_change_pct == RDiv(RSub(current_price, e.avg_entry_price), e.avg_entry_price)
    IN  IF RLt(RZero, e.position)
        THEN IF RLe(c.take_profit_pct, price_change_pct) THEN "TAKE_PROFIT"
             ELSE IF RLe(price_change_pct, RNeg(c.stop_loss_pct)) THEN "STOP_LOSS"
             ELSE ""
        ELSE IF RLt(e.position, RZero)
        THEN IF RLe(price_change_pct, RNeg(c.take_profit_pct)) THEN "TAKE_PROFIT"
             ELSE IF RLe(c.stop_loss_pct, price_change_pct) THEN "STOP_LOSS"
             ELSE ""
        ELSE ""

\* PreciseBacktestEngine.check_stop_loss_take_profit: the returned pair and
\* the engine afterwards.
CheckStopLossTakeProfit(e, c, current_price, timestamp) ==
    IF e.position = RZero \/ e.avg_entry_price = RZero
    THEN [closed |-> FALSE, reason |-> None, e |-> e]
    ELSE
    LET close_reason == CloseReason(e, c, current_price)
        size == RAbs(e.position)
        fee == TradeFee(current_price, size, c.fee_rate)
        long == RLt(RZero, e.position)
        cash1 == IF long THEN RAdd(e.cash, RSub(RMul(current_price, size), fee))
                 ELSE RSub(e.cash, RAdd(RMul(current_price, size), fee))
        pnl == IF long
               THEN RSub(RMul(RSub(current_price, e.avg_entry_price), size), fee)
               ELSE RSub(RMul(RSub(e.avg_entry_price, current_price), size), fee)
        trade == TradeDict(timestamp, IF long THEN "SELL" ELSE "BUY", current_price,
                           size, fee, RZero, cash1, Some(pnl), Some(close_reason),
                           Some(e.avg_entry_price))
    IN  IF close_reason = ""
        THEN [closed |-> FALSE, reason |-> None, e |-> e]
        ELSE [ closed |-> TRUE, reason |-> Some(close_reason),
               e |-> [ e EXCEPT
                   !.take_profit_triggered =
                       IF close_reason = "TAKE_PROFIT" THEN @ + 1 ELSE @,
                   !.stop_loss_triggered =
                       IF close_reason = "STOP_LOSS" THEN @ + 1 ELSE @,
                   !.cash = cash1,
                   !.total_fees = RAdd(e.total_fees, fee),
                   !.total_profit = RAdd(e.total_profit, pnl),
                   !.winning_trades = CountWin(e, pnl),
                   !.losing_trades = CountLose(e, pnl),
                   !.trades = Append(e.trades, trade),
                   !.total_trades = e.total_trades + 1,
                   !.position = RZero,
                   !.avg_entry_price = RZero ] ]

\* BacktestEngine.execute_trade of test_edgex_strategy_backtest.py (long only)
SimpleExecuteTrade(e, c, signal, timestamp) ==
    LET price == signal.price
        size == c.position_size
        fee == TradeFee(price, size, c.fee_rate)
        cost == RAdd(RMul(price, size), fee)
        revenue == RSub(RMul(price, size), fee)
        pnl == RSub(RMul(RSub(price, e.avg_entry_price), size), fee)
        pos_buy == RAdd(e.position, size)
        pos_sell == RSub(e.position, size)
    IN  IF signal.direction = "buy"
        THEN IF RLe(cost, e.cash)
             THEN [ ok |-> TRUE, pnl |-> None,
                    e |-> [ e EXCEPT
                        !.cash = RSub(e.cash, cost),
                        !.avg_entry_price =
                            IF e.position = RZero THEN price
                            ELSE RDiv(RAdd(RMul(e.avg_entry_price, e.position), cost),
                                      RAdd(e.position, size)),
                        !.position = pos_buy,
                        !.trades = Append(e.trades,
                            TradeDict(timestamp, "BUY", price, size, fee, pos_buy,
                                      RSub(e.cash, cost), None, None, None)),
                        !.total_trades = e.total_trades + 1 ] ]
             ELSE [ok |-> FALSE, pnl |-> None, e |-> e]
        ELSE IF RLe(size, e.position)
             THEN [ ok |-> TRUE, pnl |-> Some(pnl),
                    e |-> [ e EXCEPT
                        !.cash = RAdd(e.cash, revenue),
                        !.total_profit = RAdd(e.total_profit, pnl),
                        !.winning_trades = CountWin(e, pnl),
                        !.losing_trades = CountLose(e, pnl),
                        !.position = pos_sell,
                        !.avg_entry_price =
                            IF pos_sell = RZero THEN RZero ELSE e.avg_entry_price,
                        !.trades = Append(e.trades,
                            TradeDict(timestamp, "SELL", price, size, fee, pos_sell,
                                      RAdd(e.cash, revenue), Some(pnl), None, None)),
                        !.total_trades = e.total_trades + 1 ] ]
             ELSE [ok |-> FALSE, pnl |-> None, e |-> e]

MaxEngineCalls == 3

\* Constructor arguments: the defaults and what run_precise_backtest passes,
\* plus a small account and a fee-free one.
CapitalSet == {R(10000), R(150)}
FeeRateSet == {Rat(5, 10000), RZero}
StopTakeSet == {<<Rat(2, 100), Rat(1, 100)>>, <<Rat(1, 100), Rat(2, 100)>>}
EnginePriceSet == {R(100), Rat(989, 10), R(2000), R(2010)}
EngineSignalSet == [direction : Directions, price : EnginePriceSet]
\* The prices a position is marked at: within one percent of a fill price
\* (2010), beyond it (98.9), and exactly one percent below 100 and above 2000.
MarkPriceSet == {R(99), Rat(989, 10), R(2010), R(2020)}

CallCount == IF last_call = None THEN 0 ELSE last_call[1].n

InitEngine ==
    /\ component \in {"precise", "simple"}
    /\ IdleLive
    /\ IdleConfirm
    /\ IdleBook
    /\ IdleQuote
    /\ IdlePerf
    /\ IdleBacktest
    /\ initial_capital \in CapitalSet
    /\ fee_rate \in FeeRateSet
    /\ \E st \in StopTakeSet :
          /\ stop_loss_pct = st[1]
          /\ take_profit_pct = st[2]
          /\ component = "simple" => st = <<Rat(2, 100), Rat(1, 100)>>
    /\ position_size = Rat(1, 10)
    /\ cash = initial_capital
    /\ position = RZero
    /\ avg_entry_price = RZero
    /\ trades = <<>>
    /\ total_trades = 0
    /\ winning_trades = 0
    /\ losing_trades = 0
    /\ total_profit = RZero
    /\ total_fees = RZero
    /\ stop_loss_triggered = 0
    /\ take_profit_triggered = 0
    /\ last_call = None
    /\ IdleRun

SetEngine(e) ==
    /\ cash' = e.cash
    /\ position' = e.position
    /\ avg_entry_price' = e.avg_entry_price
    /\ trades' = e.trades
    /\ total_trades' = e.total_trades
    /\ winning_trades' = e.winning_trades
    /\ losing_trades' = e.losing_trades
    /\ total_profit' = e.total_profit
    /\ total_fees' = e.total_fees
    /\ stop_loss_triggered' = e.stop_loss_triggered
    /\ take_profit_triggered' = e.take_profit_triggered

\* engine.execute_trade(signal, current_price, timestamp)
execute_trade(signal) ==
    /\ component \in {"precise", "simple"}
    /\ CallCount < MaxEngineCalls
    /\ LET timestamp == CallCount + 1
           r == IF component = "precise"
                THEN PreciseExecuteTrade(Engine, EngineConfig, signal, timestamp)
                ELSE SimpleExecuteTrade(Engine, EngineConfig, signal, timestamp)
       IN  /\ SetEngine(r.e)
           /\ last_call' = Some([ n |-> timestamp, op |-> "execute_trade",
                                  direction |-> signal.direction, price |-> signal.price,
                                  ok |-> r.ok, pnl |-> r.pnl, reason |-> None,
                                  before |-> Engine ])
    /\ UNCHANGED <<component, confVars, bookVars, quoteVars, perfVars, engineCfg, runVars, backtestVars, liveVars>>

\* engine.check_stop_loss_take_profit(current_price, timestamp)
check_stop_loss_take_profit(current_price) ==
    /\ component = "precise"
    /\ CallCount < MaxEngineCalls
    /\ LET timestamp == CallCount + 1
           r == CheckStopLossTakeProfit(Engine, EngineConfig, current_price, timestamp)
       IN  /\ SetEngine(r.e)
           /\ last_call' = Some([ n |-> timestamp, op |-> "check_stop_loss_take_profit",
                                  direction |-> "", price |-> current_price,
                                  ok |-> r.closed, pnl |-> None, reason |-> r.reason,
                                  before |-> Engine ])
    /\ UNCHANGED <<component, confVars, bookVars, quoteVars, perfVars, engineCfg, runVars, backtestVars, liveVars>>

NextEngine ==
    \/ \E signal \in EngineSignalSet : execute_trade(signal)
    \/ \E current_price \in MarkPriceSet : check_stop_loss_take_profit(current_price)

SpecEngine == InitEngine /\ [][NextEngine]_vars

(***************************************************************************)
(* run_precise_backtest (scripts/test/test_edgex_precise_backtest.py): the *)
(* PreciseOrderFlowStrategy, the equity curve of the engine and the loop   *)
(* over historical_records.  One iteration of the loop is two steps: the   *)
(* first reads the record, updates the market data, checks stop-loss and   *)
(* take-profit and updates the equity curve; the second is the signal      *)
(* check that follows in the loop body.  The floats of calculate_imbalance *)
(* are exact rationals.                                                    *)
(***************************************************************************)
HistoryMaxLen == 20
SignalCheckInterval == 10
MinTradeInterval == 30

\* PreciseOrderFlowStrategy.__init__ as run_precise_backtest calls it
NewStrategy ==
    [ imbalance_threshold |-> Rat(35, 100),
      price_history |-> <<>>, bid_history |-> <<>>, ask_history |-> <<>>,
      spread_history |-> <<>>,
      best_bid |-> RZero, best_ask |-> RZero, mid_price |-> RZero, spread |-> RZero ]

\* PreciseOrderFlowStrategy.update_market_data
UpdateMarketData(s, bid, ask, mid) ==
    [ s EXCEPT !.best_bid = bid, !.best_ask = ask, !.mid_price = mid,
               !.spread = RSub(ask, bid),
               !.price_history = DequeAppend(@, mid, HistoryMaxLen),
               !.bid_history = DequeAppend(@, bid, HistoryMaxLen),
               !.ask_history = DequeAppend(@, ask, HistoryMaxLen),
               !.spread_history = DequeAppend(@, RSub(ask, bid), HistoryMaxLen) ]

\* [abs((h[i] - h[i-1]) / h[i-1]) for i in range(1, len(h))]
PriceChanges(h) ==
    [i \in 1..(Len(h) - 1) |-> RAbs(RDiv(RSub(h[i + 1], h[i]), h[i]))]

\* PreciseOrderFlowStrategy.calculate_imbalance
StrategyCalculateImbalance(s) ==
    IF Len(s.price_history) < 5 THEN RZero
    ELSE
    LET recent_prices == LastK(s.price_history, 5)
        price_trend ==
            IF RLt(RZero, recent_prices[1])
            THEN RDiv(RSub(recent_prices[5], recent_prices[1]), recent_prices[1])
            ELSE RZero
        recent_spreads == LastK(s.spread_history, 3)
        spread_change ==
            IF Len(s.spread_history) >= 3 /\ RLt(RZero, recent_spreads[1])
            THEN RDiv(RSub(recent_spreads[1], recent_spreads[3]), recent_spreads[1])
            ELSE RZero
        price_changes == PriceChanges(s.price_history)
        recent_changes == LastK(price_changes, 5)
        price_volatility == RDiv(RSum(recent_changes), R(Len(recent_changes)))
        spread_pct == IF RLt(RZero, s.mid_price) THEN RDiv(s.spread, s.mid_price)
                      ELSE RZero
        sign == IF RLt(RZero, price_trend) THEN ROne ELSE RNeg(ROne)
        trend_part == IF RLt(Rat(1, 10000), RAbs(price_trend))
                      THEN RMul(price_trend, Rat(4, 10)) ELSE RZero
        spread_part == IF RLt(Rat(1, 10), RAbs(spread_change))
                       THEN RMul(spread_change, Rat(3, 10)) ELSE RZero
        volatility_part == IF RLt(Rat(1, 10000), price_volatility)
                           THEN RMul(RMul(RMul(price_volatility, R(10)), sign), Rat(2, 10))
                           ELSE RZero
        ratio_part == IF RLt(spread_pct, Rat(1, 1000))
                      THEN RMul(RMul(RMul(RSub(Rat(1, 1000), spread_pct), R(100)), sign),
                                Rat(1, 10))
                      ELSE RZero
    IN  RAdd(RAdd(RAdd(trend_part, spread_part), volatility_part), ratio_part)

\* PreciseOrderFlowStrategy.generate_signal: None or the signal dict
StrategyGenerateSignal(s) ==
    IF RLe(s.best_bid, RZero) \/ RLe(s.best_ask, RZero) THEN None
    ELSE
    LET imbalance == StrategyCalculateImbalance(s)
        direction == IF RLt(RZero, imbalance) THEN "buy" ELSE "sell"
    IN  IF RLt(s.imbalance_threshold, RAbs(imbalance))
        THEN Some([ direction |-> direction,
                    strength |-> RMin(RDiv(RAbs(imbalance), s.imbalance_threshold), ROne),
                    imbalance |-> imbalance,
                    price |-> IF direction = "buy" THEN s.best_ask ELSE s.best_bid,
                    best_bid |-> s.best_bid, best_ask |-> s.best_ask,
                    spread |-> s.spread ])
        ELSE None

\* The three fields update_equity_curve writes, as a record.
EquityState ==
    [ equity_points |-> equity_points, peak_equity |-> peak_equity,
      max_drawdown |-> max_drawdown ]

\* PreciseBacktestEngine.update_equity_curve
UpdateEquityCurve(q, e, current_price, timestamp) ==
    LET equity == CalculateEquity(e, current_price)
        peak == IF RLt(q.peak_equity, equity) THEN equity ELSE q.peak_equity
        drawdown == RDiv(RSub(peak, equity), peak)
    IN  [ equity_points |->
              Append(q.equity_points,
                     [ timestamp |-> timestamp, equity |-> equity, cash |-> e.cash,
                       position |-> e.position,
                       position_value |-> RMul(current_price, e.position) ]),
          peak_equity |-> peak,
          max_drawdown |-> IF RLt(q.max_drawdown, drawdown) THEN drawdown
                           ELSE q.max_drawdown ]

\* The number of historical_records a run iterates over.
MaxRecords == 6

\* historical_records: the time since the previous record and the quotes.
\* The last one is a record the loop skips.
HistRecord(dt, bid, ask, mid) ==
    [dt |-> dt, best_bid |-> bid, best_ask |-> ask, mid_price |-> mid]

HistRecordSet ==
    { HistRecord(5, R(79), R(81), R(80)),
      HistRecord(15, R(87), R(89), R(88)),
      HistRecord(30, R(98), R(100), R(99)),
      HistRecord(30, R(97), R(99), R(98)),
      HistRecord(30, RZero, RZero, RZero) }

\* record.get('unix_time', 0) of the record of this iteration
RecordTime(rec) == (IF record = None THEN 1000 ELSE record[1].unix_time) + rec.dt

\* The state run_precise_backtest builds before its loop.
InitPreciseRun ==
    /\ component = "precise_run"
    /\ IdleLive
    /\ IdleConfirm
    /\ IdleBook
    /\ IdleQuote
    /\ IdlePerf
    /\ IdleBacktest
    /\ initial_capital = R(10000)
    /\ fee_rate = Rat(5, 10000)
    /\ stop_loss_pct = Rat(1, 100)
    /\ take_profit_pct = Rat(2, 100)
    /\ position_size = Rat(1, 10)
    /\ cash = initial_capital
    /\ position = RZero
    /\ avg_entry_price = RZero
    /\ trades = <<>>
    /\ total_trades = 0
    /\ winning_trades = 0
    /\ losing_trades = 0
    /\ total_profit = RZero
    /\ total_fees = RZero
    /\ stop_loss_triggered = 0
    /\ take_profit_triggered = 0
    /\ last_call = None
    /\ equity_points = <<>>
    /\ peak_equity = initial_capital
    /\ max_drawdown = RZero
    /\ strategy = NewStrategy
    /\ last_signal_time = 0
    /\ last_trade_time = 0
    /\ consumed = 0
    /\ record = None
    /\ run_pc = "fetch"
    /\ tick_note = None

SetEquity(q) ==
    /\ equity_points' = q.equity_points
    /\ peak_equity' = q.peak_equity
    /\ max_drawdown' = q.max_drawdown

\* The loop body up to and including backtest.update_equity_curve; a record
\* with a non-positive quote is skipped (continue).
read_record(rec) ==
    /\ component = "precise_run"
    /\ run_pc = "fetch"
    /\ consumed < MaxRecords
    /\ consumed' = consumed + 1
    /\ record' = Some([ unix_time |-> RecordTime(rec), best_bid |-> rec.best_bid,
                        best_ask |-> rec.best_ask, mid_price |-> rec.mid_price ])
    /\ IF \/ RLe(rec.best_bid, RZero)
          \/ RLe(rec.best_ask, RZero)
          \/ RLe(rec.mid_price, RZero)
       THEN /\ tick_note' = Some([ skipped |-> TRUE, before |-> Engine,
                                   stop_triggered |-> FALSE, stop_reason |-> None,
                                   at_signal |-> None, signal |-> None,
                                   executed |-> FALSE ])
            /\ UNCHANGED <<engineState, equity_points, peak_equity, max_drawdown,
                           strategy, run_pc>>
       ELSE \E r \in { CheckStopLossTakeProfit(Engine, EngineConfig, rec.mid_price,
                                               RecordTime(rec)) } :
            /\ strategy' = UpdateMarketData(strategy, rec.best_bid, rec.best_ask,
                                            rec.mid_price)
            /\ SetEngine(r.e)
            /\ SetEquity(UpdateEquityCurve(EquityState, r.e, rec.mid_price,
                                           RecordTime(rec)))
            /\ tick_note' = Some([ skipped |-> FALSE, before |-> Engine,
                                   stop_triggered |-> r.closed,
                                   stop_reason |-> r.reason,
                                   at_signal |-> None, signal |-> None,
                                   executed |-> FALSE ])
            /\ run_pc' = "signal"
    /\ UNCHANGED <<component, confVars, bookVars, quoteVars, perfVars, engineCfg,
                   last_call, last_signal_time, last_trade_time, backtestVars, liveVars>>

\* timestamp - last if last > 0 else float('inf'), compared with an interval
IntervalPassed(timestamp, last, interval) ==
    IF last > 0 THEN timestamp - last >= interval ELSE TRUE

\* The signal the loop body hands to execute_trade at this record, or None:
\* the signal check is due, the strategy gives a signal of strength >= 0.7
\* and the minimum trade interval has passed.
SignalToExecute(s, timestamp, lst, ltt) ==
    IF ~IntervalPassed(timestamp, lst, SignalCheckInterval) THEN None
    ELSE LET signal == StrategyGenerateSignal(s)
         IN  IF signal # None /\ RLe(Rat(7, 10), signal[1].strength)
                /\ IntervalPassed(timestamp, ltt, MinTradeInterval)
             THEN signal
             ELSE None

\* The rest of the loop body: the signal check and the trade it executes.
check_signal ==
    /\ component = "precise_run"
    /\ run_pc = "signal"
    /\ \E timestamp \in {record[1].unix_time} :
       \E signal \in { SignalToExecute(strategy, timestamp, last_signal_time,
                                       last_trade_time) } :
          IF signal = None
          THEN /\ tick_note' = Some([tick_note[1] EXCEPT !.at_signal = Some(Engine)])
               /\ UNCHANGED <<engineState, last_signal_time, last_trade_time>>
          ELSE \E r \in { PreciseExecuteTrade(Engine, EngineConfig, signal[1],
                                              timestamp) } :
               /\ SetEngine(r.e)
               /\ last_trade_time' = IF r.ok THEN timestamp ELSE last_trade_time
               /\ last_signal_time' = IF r.ok THEN timestamp ELSE last_signal_time
               /\ tick_note' = Some([tick_note[1] EXCEPT !.at_signal = Some(Engine),
                                                         !.signal = signal,
                                                         !.executed = r.ok])
    /\ run_pc' = "fetch"
    /\ UNCHANGED <<component, confVars, bookVars, quoteVars, perfVars, engineCfg,
                   last_call, equity_points, peak_equity, max_drawdown, strategy,
                   consumed, record, backtestVars, liveVars>>

NextPreciseRun ==
    \/ \E rec \in HistRecordSet : read_record(rec)
    \/ check_signal

SpecPreciseRun == InitPreciseRun /\ [][NextPreciseRun]_vars

(***************************************************************************)
(* TradeFlowMonitor (shared/trade_flow_monitor.py).  A monitor is the      *)
(* record of its two deques; `now` is the value of time.time().            *)
(***************************************************************************)
DefaultLookbackSeconds == 10

RECURSIVE DropOld(_, _)
\* while q and q[0].timestamp < cutoff_time: q.popleft()
DropOld(q, cutoff_time) ==
    IF q # <<>> /\ Head(q).timestamp < cutoff_time THEN DropOld(Tail(q), cutoff_time)
    ELSE q

\* A faulty variant: the cleanup keeps the large trades however old
MonitorAddTradeAt_LargeKept(m, t, stamp, now, window_seconds, large_order_threshold) ==
    LET trade == [price |-> t.price, size |-> t.size, side |-> t.side,
                  timestamp |-> stamp, trade_id |-> t.trade_id]
        all == Append(m.trades, trade)
        large == IF RLe(large_order_threshold, RMul(trade.price, trade.size))
                 THEN Append(m.large_trades, trade) ELSE m.large_trades
    IN  [ trades |-> DropOld(all, now - window_seconds),
          large_trades |-> large ]

\* A faulty variant: a trade counts as large only above the threshold
MonitorAddTradeAt_Above(m, t, stamp, now, window_seconds, large_order_threshold) ==
    LET trade == [price |-> t.price, size |-> t.size, side |-> t.side,
                  timestamp |-> stamp, trade_id |-> t.trade_id]
        all == Append(m.trades, trade)
        large == IF RLt(large_order_threshold, RMul(trade.price, trade.size))
                 THEN Append(m.large_trades, trade) ELSE m.large_trades
    IN  [ trades |-> DropOld(all, now - window_seconds),
          large_trades |-> DropOld(large, now - window_seconds) ]

\* TradeFlowMonitor.add_trade followed by its _cleanup_old_trades: `stamp`
\* is the time.time() the Trade is built with, `now` the time.time() that
\* _cleanup_old_trades reads afterwards
MonitorAddTradeAt(m, t, stamp, now, window_seconds, large_order_threshold) ==
    LET trade == [price |-> t.price, size |-> t.size, side |-> t.side,
                  timestamp |-> stamp, trade_id |-> t.trade_id]
        all == Append(m.trades, trade)
        large == IF RLe(large_order_threshold, RMul(trade.price, trade.size))
                 THEN Append(m.large_trades, trade) ELSE m.large_trades
    IN  [ trades |-> DropOld(all, now - window_seconds),
          large_trades |-> DropOld(large, now - window_seconds) ]

\* add_trade when the clock does not move between its two readings
MonitorAddTrade(m, t, now, window_seconds, large_order_threshold) ==
    MonitorAddTradeAt(m, t, now, now, window_seconds, large_order_threshold)

RECURSIVE MonitorAddAll(_, _, _, _, _)
\* for trade in nearby_trades: self.trade_flow_monitor.add_trade(...)
MonitorAddAll(m, nearby, now, window_seconds, large_order_threshold) ==
    IF nearby = <<>> THEN m
    ELSE MonitorAddAll(MonitorAddTrade(m, Head(nearby), now, window_seconds,
                                       large_order_threshold),
                       Tail(nearby), now, window_seconds, large_order_threshold)

SideVolume(q, side) ==
    LET of_side == SelectSeq(q, LAMBDA t : t.side = side)
    IN  RSum([i \in 1..Len(of_side) |-> of_side[i].size])

\* TradeFlowMonitor.get_buy_sell_imbalance
GetBuySellImbalance(q) ==
    IF q = <<>> THEN RZero
    ELSE LET buy_volume == SideVolume(q, "buy")
             sell_volume == SideVolume(q, "sell")
             total_volume == RAdd(buy_volume, sell_volume)
         IN  IF total_volume = RZero THEN RZero
             ELSE RDiv(RSub(buy_volume, sell_volume), total_volume)

\* TradeFlowMonitor.detect_momentum
DetectMomentum(q, now, lookback_seconds) ==
    IF q = <<>> THEN RZero
    ELSE LET recent_trades == SelectSeq(q, LAMBDA t : t.timestamp >= now - lookback_seconds)
         IN  IF Len(recent_trades) < 2 THEN RZero
             ELSE LET first_price == recent_trades[1].price
                      last_price == recent_trades[Len(recent_trades)].price
                  IN  IF first_price = RZero THEN RZero
                      ELSE RDiv(RSub(last_price, first_price), first_price)

\* BacktestData.get_trades_in_range
GetTradesInRange(data, start, end) ==
    SelectSeq(data, LAMBDA t : start <= t.timestamp /\ t.timestamp <= end)

(***************************************************************************)
(* BacktestEngine (perp_dex_strategies/backtest/backtest_engine.py).       *)
(***************************************************************************)
\* get_orderbook_metrics reads liquidity['total_liquidity'], a key that
\* calculate_liquidity leaves out when the mid price is 0: KeyError.
GetOrderbookMetricsRaises(snapshot) == mid_price(snapshot) = RZero

\* A faulty variant: a later rule overrides the direction an earlier rule set
ApplyRule_Overrides(st, value, gate, contribution) ==
    IF RLt(gate, RAbs(value))
    THEN [ direction |-> IF RLt(RZero, value) THEN "buy" ELSE "sell",
           strength |-> RAdd(st.strength, contribution) ]
    ELSE st

\* one of the three "... and direction != opposite" rules of _generate_signal;
\* st is the pair of direction ("" for None) and signal_strength so far
ApplyRule(st, value, gate, contribution) ==
    IF RLt(gate, RAbs(value))
    THEN IF RLt(RZero, value) /\ st.direction # "sell"
         THEN [direction |-> "buy", strength |-> RAdd(st.strength, contribution)]
         ELSE IF RLt(value, RZero) /\ st.direction # "buy"
         THEN [direction |-> "sell", strength |-> RAdd(st.strength, contribution)]
         ELSE st
    ELSE st

\* the four metrics _generate_signal reads: order-book imbalance, weighted
\* imbalance, trade-flow imbalance and momentum
SignalMetrics(snapshot, q, now) ==
    << CalculateImbalance(Some(snapshot), None),
       CalculateWeightedImbalance(Some(snapshot), None, DefaultDepthLevels),
       GetBuySellImbalance(q),
       DetectMomentum(q, now, DefaultLookbackSeconds) >>

\* direction and signal_strength after the order-book imbalance rule
FirstRule(imbalance, imbalance_threshold) ==
    IF RLt(imbalance_threshold, RAbs(imbalance))
    THEN [ direction |-> IF RLt(RZero, imbalance) THEN "buy" ELSE "sell",
           strength |-> RMul(RAbs(imbalance), Rat(4, 10)) ]
    ELSE [direction |-> "", strength |-> RZero]

\* the trace t of (direction, signal_strength) pairs, extended by one rule
ThenRule(t, value, gate, contribution) ==
    Append(t, ApplyRule(t[Len(t)], value, gate, contribution))

\* direction and signal_strength after each of the four rules of
\* _generate_signal, m being the four metrics
RuleTrace(m, imbalance_threshold) ==
    ThenRule(ThenRule(ThenRule(<<FirstRule(m[1], imbalance_threshold)>>,
                               m[2], imbalance_threshold, RMul(RAbs(m[2]), Rat(3, 10))),
                      m[3], Rat(3, 10), RMul(RAbs(m[3]), Rat(2, 10))),
             m[4], Rat(1, 1000), RMin(RMul(RAbs(m[4]), R(100)), Rat(1, 10)))

\* A faulty variant: a buy is priced at the best bid, a sell at the best ask
EmitSignal_SameSide(snapshot, st, strength_threshold) ==
    IF RLt(st.strength, strength_threshold) \/ st.direction = "" THEN None
    ELSE Some([ direction |-> st.direction,
                strength |-> RMin(st.strength, ROne),
                price |-> IF st.direction = "buy" THEN snapshot.best_bid
                          ELSE snapshot.best_ask ])

\* the end of _generate_signal: the strength check and the signal built
EmitSignal(snapshot, st, strength_threshold) ==
    IF RLt(st.strength, strength_threshold) \/ st.direction = "" THEN None
    ELSE Some([ direction |-> st.direction,
                strength |-> RMin(st.strength, ROne),
                price |-> IF st.direction = "buy" THEN snapshot.best_ask
                          ELSE snapshot.best_bid ])

\* BacktestEngine._generate_signal (and OrderFlowStrategy.generate_signal,
\* the same statements) for a snapshot whose metrics can be read
GenerateSignal(snapshot, q, now, imbalance_threshold, strength_threshold) ==
    EmitSignal(snapshot,
               RuleTrace(SignalMetrics(snapshot, q, now), imbalance_threshold)[4],
               strength_threshold)

\* The ledger fields of the engine as one record (position_entry_time is
\* written by the code but never read, and is left out).
Ledger ==
    [ balance |-> balance, current_position |-> current_position,
      position_entry_price |-> position_entry_price, trades |-> trade_records,
      signals_generated |-> signals_generated, signals_executed |-> signals_executed,
      signal_buffer |-> signal_buffer ]

TradeRecord(timestamp, direction, price, size, pnl) ==
    [timestamp |-> timestamp, direction |-> direction, price |-> price,
     size |-> size, pnl |-> pnl]

\* A faulty variant: the pnl of a short is computed as that of a long
ClosePnl_AsLong(L, price) ==
    RMul(RSub(price, L.position_entry_price), RAbs(L.current_position))

\* the pnl _close_position computes
ClosePnl(L, price) ==
    LET trade_size == RAbs(L.current_position)
    IN  IF RLt(RZero, L.current_position)
        THEN RMul(RSub(price, L.position_entry_price), trade_size)
        ELSE RMul(RSub(L.position_entry_price, price), trade_size)

\* A faulty variant: the position is closed without a TradeRecord
ClosePosition_Unrecorded(L, price, timestamp) ==
    IF L.current_position = RZero THEN L
    ELSE [ L EXCEPT !.balance = RAdd(RAdd(L.balance, RMul(price, RAbs(L.current_position))),
                                     ClosePnl(L, price)),
                    !.current_position = RZero,
                    !.position_entry_price = RZero ]

\* BacktestEngine._close_position
ClosePosition(L, price, timestamp) ==
    IF L.current_position = RZero THEN L
    ELSE
    LET trade_size == RAbs(L.current_position)
        trade_value == RMul(price, trade_size)
        pnl == ClosePnl(L, price)
        direction == IF RLt(RZero, L.current_position) THEN "sell" ELSE "buy"
    IN  [ L EXCEPT !.balance = RAdd(RAdd(L.balance, trade_value), pnl),
                   !.trades = Append(L.trades,
                                     TradeRecord(timestamp, direction, price, trade_size, pnl)),
                   !.current_position = RZero,
                   !.position_entry_price = RZero ]

\* the ledger when _execute_signal reaches its funds check
AfterOppositeClose(L, signal, timestamp) ==
    IF \/ (signal.direction = "buy" /\ RLt(L.current_position, RZero))
       \/ (signal.direction = "sell" /\ RLt(RZero, L.current_position))
    THEN ClosePosition(L, signal.price, timestamp)
    ELSE L

\* BacktestEngine._execute_signal
ExecuteSignal(L, cfg, signal, timestamp) ==
    IF signal.direction = "buy" /\ RLe(cfg.max_position, L.current_position) THEN L
    ELSE IF signal.direction = "sell" /\ RLe(L.current_position, RNeg(cfg.max_position)) THEN L
    ELSE
    LET L1 == AfterOppositeClose(L, signal, timestamp)
        trade_size == cfg.position_size
        trade_value == RMul(signal.price, trade_size)
    IN  IF signal.direction = "buy" /\ RLt(L1.balance, trade_value) THEN L1
        ELSE [ L1 EXCEPT
                 !.current_position = IF signal.direction = "buy"
                                      THEN RAdd(L1.current_position, trade_size)
                                      ELSE RSub(L1.current_position, trade_size),
                 !.balance = IF signal.direction = "buy"
                             THEN RSub(L1.balance, trade_value)
                             ELSE RAdd(L1.balance, trade_value),
                 !.position_entry_price = signal.price,
                 !.trades = Append(L1.trades,
                                   TradeRecord(timestamp, signal.direction, signal.price,
                                               trade_size, RZero)),
                 !.signals_executed = L1.signals_executed + 1 ]

\* BacktestEngine._confirm_signal: the buffer afterwards and the value returned
ConfirmSignal(buf, signal, n, thr) ==
    LET b == BufferAfterAppend(buf, signal, n)
    IN  [buffer |-> b, confirmed |-> ConfirmResult(b, n, thr)]

\* A faulty variant: the signal is confirmed and executed but not counted
ProcessSignal_Uncounted(L, cfg, c, signal, timestamp) ==
    LET L1 == [L EXCEPT !.signal_buffer = c.buffer]
    IN  IF c.confirmed THEN ExecuteSignal(L1, cfg, signal, timestamp) ELSE L1

\* A faulty variant: a generated signal is executed whether confirmed or not
ProcessSignal_Unconfirmed(L, cfg, c, signal, timestamp) ==
    ExecuteSignal([L EXCEPT !.signals_generated = L.signals_generated + 1,
                            !.signal_buffer = c.buffer],
                  cfg, signal, timestamp)

\* the `if signal:` block of the loop of run; c is what _confirm_signal
\* gives for the signal (ConfirmSignal on the buffer of L)
ProcessSignal(L, cfg, c, signal, timestamp) ==
    LET L1 == [L EXCEPT !.signals_generated = L.signals_generated + 1,
                        !.signal_buffer = c.buffer]
    IN  IF c.confirmed THEN ExecuteSignal(L1, cfg, signal, timestamp) ELSE L1

\* BacktestEngine._calculate_position_value
CalculatePositionValue(L, current_price) ==
    IF L.current_position = RZero THEN RZero
    ELSE IF RLt(RZero, L.current_position)
    THEN RMul(RSub(current_price, L.position_entry_price), L.current_position)
    ELSE RMul(RSub(L.position_entry_price, current_price), RAbs(L.current_position))

\* the value appended to equity_curve
CurrentEquity(L, current_price) == RAdd(L.balance, CalculatePositionValue(L, current_price))

MaxTicks == 3

\* HistoricalOrderBook values (the timestamp is given by the position in
\* data.orderbooks, one second apart)
HistBook(bids, asks) ==
    [ bids |-> bids, asks |-> asks,
      best_bid |-> IF bids = <<>> THEN RZero ELSE bids[1][1],
      best_ask |-> IF asks = <<>> THEN RZero ELSE asks[1][1] ]

HistBookSet ==
    { HistBook(<< <<R(99), R(1)>> >>, << <<R(101), R(1)>> >>),
      HistBook(<< <<R(99), R(9)>> >>, << <<R(100), R(1)>> >>),
      HistBook(<< <<R(100), R(1)>> >>, << <<R(101), R(9)>> >>),
      HistBook(<< <<R(399), R(9)>> >>, << <<R(400), R(1)>> >>),
      HistBook(<< <<R(400), R(1)>> >>, << <<R(401), R(9)>> >>),
      HistBook(<<>>, <<>>) }

\* HistoricalOrderBook.mid_price
HistMidPrice(ob) == RDiv(RAdd(ob.best_bid, ob.best_ask), R(2))

HistTrade(timestamp, price, size, side, trade_id) ==
    [timestamp |-> timestamp, price |-> price, size |-> size, side |-> side,
     trade_id |-> trade_id]

DataTradesSet ==
    { <<>>,
      << HistTrade(1, R(100), R(1), "buy", "t1"), HistTrade(2, R(101), R(500), "buy", "t2") >>,
      << HistTrade(1, R(101), R(1), "sell", "t1"), HistTrade(2, R(100), R(500), "sell", "t2") >>,
      << HistTrade(1, R(100), R(1), "sell", "t1"), HistTrade(2, R(100), R(9), "buy", "t2") >> }

ClockStepSet == {0, 11, 61}

BacktestConfigSet ==
    [ imbalance_threshold : {Rat(6, 10)},
      trade_flow_window : {60},
      large_order_threshold : {R(50000)},
      position_size : {Rat(1, 10)},
      max_position : {Rat(1, 10), ROne} ]

InitBacktestWith(configs) ==
    /\ component = "backtest"
    /\ IdleLive
    /\ IdleQuote
    /\ IdlePerf
    /\ IdleEngine
    /\ confirmation_ticks \in {1, 2}
    /\ signal_strength_threshold \in {Rat(1, 2), Rat(7, 10)}
    /\ signal_buffer = <<>>
    /\ fed = <<>>
    /\ confirmed = FALSE
    /\ depth = 20
    /\ snapshots = <<>>
    /\ current_snapshot = None
    /\ query = None
    /\ imbalance_ret = None
    /\ weighted_ret = None
    /\ built = <<>>
    /\ bt_config \in configs
    /\ initial_balance \in {R(10000), R(15)}
    /\ balance = initial_balance
    /\ current_position = RZero
    /\ position_entry_price = RZero
    /\ trade_records = <<>>
    /\ signals_generated = 0
    /\ signals_executed = 0
    /\ equity_curve = <<initial_balance>>
    /\ monitor_trades = <<>>
    /\ large_trades = <<>>
    /\ clock = 0
    /\ data_trades \in DataTradesSet
    /\ clock_step \in IF data_trades = <<>> THEN {0} ELSE ClockStepSet
    /\ processed = 0
    /\ last_orderbook = None
    /\ phase = "running"
    /\ result = None
    /\ last_step = None

SetLedger(L) ==
    /\ balance' = L.balance
    /\ current_position' = L.current_position
    /\ position_entry_price' = L.position_entry_price
    /\ trade_records' = L.trades
    /\ signals_generated' = L.signals_generated
    /\ signals_executed' = L.signals_executed
    /\ signal_buffer' = L.signal_buffer

\* history: the balance before the opening fill of the position now held
BalanceBeforeOpen == IF last_step = None THEN None ELSE last_step[1].balance_before_open

\* history: a step of run that did not call _execute_signal
StepHistory(kind, signal) ==
    [ kind |-> kind, signal |-> signal, before |-> None, closed |-> None,
      opened |-> FALSE, refused |-> FALSE, balance_before_open |-> BalanceBeforeOpen ]

\* history: what _execute_signal did when the loop called it with `signal`
\* on ledger L (after the signal was counted and buffered)
ExecuteHistory(L, signal, timestamp) ==
    LET L1 == AfterOppositeClose(L, signal, timestamp)
        L2 == ExecuteSignal(L, bt_config, signal, timestamp)
        closes == L1 # L
        opens == L2.signals_executed # L.signals_executed
    IN  [ kind |-> "execute", signal |-> Some(signal), before |-> Some(L),
          closed |-> IF closes
                     THEN Some([ price |-> signal.price,
                                 entry_price |-> L.position_entry_price,
                                 position |-> L.current_position,
                                 pnl |-> ClosePnl(L, signal.price),
                                 balance_after |-> L1.balance,
                                 balance_before_open |-> BalanceBeforeOpen ])
                     ELSE None,
          opened |-> opens,
          refused |-> /\ signal.direction = "buy"
                      /\ ~RLe(bt_config.max_position, L.current_position)
                      /\ RLt(L1.balance, RMul(signal.price, bt_config.position_size)),
          balance_before_open |-> IF opens THEN Some(L1.balance)
                                  ELSE IF closes THEN None ELSE BalanceBeforeOpen ]

\* one iteration of the loop of BacktestEngine.run (each value of the
\* iteration is bound once, in the order the code computes it)
run_step(orderbook) ==
    /\ component = "backtest"
    /\ phase = "running"
    /\ processed < MaxTicks
    /\ \E timestamp \in {processed + 1}, now \in {clock + clock_step},
          snapshot \in {MakeSnapshot(orderbook.bids, orderbook.asks, depth)} :
       \E m \in {MonitorAddAll([trades |-> monitor_trades, large_trades |-> large_trades],
                               GetTradesInRange(data_trades,
                                                timestamp - bt_config.trade_flow_window,
                                                timestamp),
                               now, bt_config.trade_flow_window,
                               bt_config.large_order_threshold)} :
          /\ current_snapshot' = Some(snapshot)
          /\ snapshots' = DequeAppend(snapshots, snapshot, SnapshotHistoryMax)
          /\ built' = Append(built, snapshot)
          /\ monitor_trades' = m.trades
          /\ large_trades' = m.large_trades
          /\ clock' = now
          /\ processed' = processed + 1
          /\ last_orderbook' = Some(orderbook @@ [timestamp |-> timestamp])
          /\ IF GetOrderbookMetricsRaises(snapshot)
             THEN /\ phase' = "raised"
                  /\ UNCHANGED <<ledgerVars, signal_buffer>>
                  /\ last_step' = Some(StepHistory("raised", None))
             ELSE \E signal \in {GenerateSignal(snapshot, m.trades, now,
                                                bt_config.imbalance_threshold,
                                                signal_strength_threshold)} :
                  \E c \in {IF signal = None THEN None
                            ELSE Some(ConfirmSignal(signal_buffer, signal[1],
                                                    confirmation_ticks,
                                                    signal_strength_threshold))} :
                  \E L1 \in {IF signal = None THEN Ledger
                             ELSE ProcessSignal(Ledger, bt_config, c[1], signal[1],
                                                timestamp)} :
                     /\ phase' = phase
                     /\ SetLedger(L1)
                     /\ equity_curve' =
                            Append(equity_curve, CurrentEquity(L1, mid_price(snapshot)))
                     /\ last_step' =
                          IF signal # None /\ c[1].confirmed
                          THEN Some(ExecuteHistory(
                                       [Ledger EXCEPT !.signals_generated = @ + 1,
                                                      !.signal_buffer = L1.signal_buffer],
                                       signal[1], timestamp))
                          ELSE Some(StepHistory("none", signal))
    /\ UNCHANGED <<component, confirmation_ticks, signal_strength_threshold, fed, confirmed,
                   depth, query, imbalance_ret, weighted_ret, quoteVars, perfVars, engineVars,
                   bt_config, initial_balance, clock_step, data_trades, result, liveVars>>

\* the end of BacktestEngine.run: close what is open, compute the metrics, return
run_finish ==
    /\ component = "backtest"
    /\ phase = "running"
    /\ LET closes == current_position # RZero
           last == last_orderbook[1]
           L1 == IF closes THEN ClosePosition(Ledger, HistMidPrice(last), last.timestamp)
                 ELSE Ledger
       IN  /\ SetLedger(L1)
           /\ result' = Some([ trades |-> L1.trades,
                               metrics |-> CalculateMetrics(L1.trades, initial_balance),
                               equity_curve |-> equity_curve,
                               signals_generated |-> L1.signals_generated,
                               signals_executed |-> L1.signals_executed,
                               initial_balance |-> initial_balance,
                               final_balance |-> L1.balance ])
           /\ last_step' =
                Some([ kind |-> "finish", signal |-> None, before |-> Some(Ledger),
                       closed |-> IF closes
                                  THEN Some([ price |-> HistMidPrice(last),
                                              entry_price |-> position_entry_price,
                                              position |-> current_position,
                                              pnl |-> ClosePnl(Ledger, HistMidPrice(last)),
                                              balance_after |-> L1.balance,
                                              balance_before_open |-> BalanceBeforeOpen ])
                                  ELSE None,
                       opened |-> FALSE, refused |-> FALSE,
                       balance_before_open |-> IF closes THEN None ELSE BalanceBeforeOpen ])
    /\ phase' = "done"
    /\ UNCHANGED <<component, confirmation_ticks, signal_strength_threshold, fed, confirmed,
                   bookVars, quoteVars, perfVars, engineVars, bt_config, initial_balance,
                   equity_curve, monitorVars, clock_step, data_trades, processed,
                   last_orderbook, liveVars>>

InitBacktest == InitBacktestWith(BacktestConfigSet)

NextBacktest ==
    \/ \E orderbook \in HistBookSet : run_step(orderbook)
    \/ run_finish

SpecBacktest == InitBacktest /\ [][NextBacktest]_vars

(***************************************************************************)
(* OrderFlowStrategy (strategies/orderflow_strategy.py): the live loop.    *)
(* Its config is held in bt_config, its analyzer in the order-book         *)
(* variables, its trade-flow monitor (to which the strategy never adds a   *)
(* trade) in monitor_trades, and time.time() in clock.                     *)
(***************************************************************************)
MaxLiveTicks == 2

\* what fetch_orderbook_depth hands to update_orderbook: a pair of raw lists
\* (both empty when the exchange call failed), or nothing when it returned
\* without a pair and the unpacking in update_orderbook raised
Fetched(bids, asks) == Some([bids |-> bids, asks |-> asks])

FetchedSet ==
    { None,
      Fetched(<<>>, <<>>),
      Fetched(<< <<R(99), R(1)>> >>, << <<R(101), R(1)>> >>),
      Fetched(<< <<R(99), R(9)>> >>, << <<R(100), R(1)>> >>),
      Fetched(<< <<R(100), R(1)>> >>, << <<R(101), R(9)>> >>),
      Fetched(<< <<R(102), R(9)>> >>, << <<R(100), R(1)>> >>),
      Fetched(<< <<R(100), R(0)>>, <<R(99), R(1)>> >>, << <<R(101), R(0)>>, <<R(102), R(9)>> >>) }

\* OrderFlowStrategy.update_orderbook: the snapshot it returns, if any
UpdateOrderbook(fetched, d) ==
    IF fetched = None THEN None
    ELSE IF fetched[1].bids = <<>> \/ fetched[1].asks = <<>> THEN None
    ELSE Some(MakeSnapshot(fetched[1].bids, fetched[1].asks, d))

\* OrderFlowStrategy._check_risk_limits
CheckRiskLimits(cfg, pnl, last, now) ==
    IF cfg.max_daily_loss # RZero /\ RLe(pnl, RNeg(cfg.max_daily_loss)) THEN FALSE
    ELSE IF RLt(R(now - last), RDiv(R(60), R(cfg.max_orders_per_minute))) THEN FALSE
    ELSE TRUE

\* the fields of the strategy that execute_signal reads and writes
LiveState ==
    [ current_position |-> current_position, active_orders |-> active_orders,
      last_order_time |-> last_order_time, order_count_today |-> order_count_today,
      daily_pnl |-> daily_pnl ]

\* the answers of exchange_client.place_open_order
OrderOutcomeSet == {"success", "failure", "raises"}

\* A faulty variant: the position is advanced before the order result is read
LiveExecuteSignal_Optimistic(S, cfg, signal, now, outcome) ==
    IF ~CheckRiskLimits(cfg, S.daily_pnl, S.last_order_time, now)
    THEN [state |-> S, ret |-> FALSE, placed |-> FALSE]
    ELSE [ state |-> [S EXCEPT !.current_position =
                                   IF signal.direction = "buy"
                                   THEN RAdd(S.current_position, cfg.position_size)
                                   ELSE RSub(S.current_position, cfg.position_size)],
           ret |-> outcome = "success", placed |-> TRUE ]

\* OrderFlowStrategy.execute_signal: the strategy afterwards, the value
\* returned, and whether place_open_order was called
LiveExecuteSignal(S, cfg, signal, now, outcome) ==
    IF ~CheckRiskLimits(cfg, S.daily_pnl, S.last_order_time, now)
    THEN [state |-> S, ret |-> FALSE, placed |-> FALSE]
    ELSE IF signal.direction = "buy" /\ RLe(cfg.max_position, S.current_position)
    THEN [state |-> S, ret |-> FALSE, placed |-> FALSE]
    ELSE IF signal.direction = "sell" /\ RLe(S.current_position, RNeg(cfg.max_position))
    THEN [state |-> S, ret |-> FALSE, placed |-> FALSE]
    ELSE IF outcome = "success"
    THEN [ state |-> [ S EXCEPT
                         !.active_orders = Append(S.active_orders, Len(S.active_orders) + 1),
                         !.last_order_time = now,
                         !.order_count_today = S.order_count_today + 1,
                         !.current_position =
                             IF signal.direction = "buy"
                             THEN RAdd(S.current_position, cfg.position_size)
                             ELSE RSub(S.current_position, cfg.position_size) ],
           ret |-> TRUE, placed |-> TRUE ]
    ELSE [state |-> S, ret |-> FALSE, placed |-> TRUE]

\* the `if signal:` block of the loop of run; c is what confirm_signal gives
LiveProcessSignal(S, cfg, c, signal, now, outcome) ==
    IF c.confirmed THEN LiveExecuteSignal(S, cfg, signal, now, outcome)
    ELSE [state |-> S, ret |-> FALSE, placed |-> FALSE]

ElapsedSet == {1, 10}

LiveConfigSet ==
    [ imbalance_threshold : {Rat(6, 10)},
      trade_flow_window : {60},
      large_order_threshold : {R(50000)},
      position_size : {Rat(1, 10)},
      max_position : {Rat(1, 10), ROne},
      max_daily_loss : {R(100)},
      max_orders_per_minute : {6} ]

InitLiveWith(configs) ==
    /\ component = "live"
    /\ IdleQuote
    /\ IdlePerf
    /\ IdleEngine
    /\ confirmation_ticks \in {1, 2}
    /\ signal_strength_threshold \in {Rat(1, 2), Rat(7, 10)}
    /\ signal_buffer = <<>>
    /\ fed = <<>>
    /\ confirmed = FALSE
    /\ depth = 20
    /\ snapshots = <<>>
    /\ current_snapshot = None
    /\ query = None
    /\ imbalance_ret = None
    /\ weighted_ret = None
    /\ built = <<>>
    /\ bt_config \in configs
    /\ initial_balance = R(10000)
    /\ balance = R(10000)
    /\ current_position = RZero
    /\ position_entry_price = RZero
    /\ trade_records = <<>>
    /\ signals_generated = 0
    /\ signals_executed = 0
    /\ equity_curve = <<R(10000)>>
    /\ monitor_trades = <<>>
    /\ large_trades = <<>>
    /\ clock = 1000
    /\ clock_step = 0
    /\ data_trades = <<>>
    /\ processed = 0
    /\ last_orderbook = None
    /\ phase = "running"
    /\ result = None
    /\ last_step = None
    /\ active_orders = <<>>
    /\ signals_history = <<>>
    /\ last_order_time = 0
    /\ order_count_today = 0
    /\ daily_pnl = RZero
    /\ live_step = None
    /\ signal_ret = None

\* history: what one iteration of the loop found and did
LiveHistory(fetched, snapshot, signal, c, r, outcome) ==
    [ fetched |-> fetched, snapshot |-> snapshot, signal |-> signal,
      confirmed |-> IF c = None THEN FALSE ELSE c[1].confirmed,
      executed |-> IF r = None THEN FALSE ELSE r[1].ret,
      placed |-> IF r = None THEN FALSE ELSE r[1].placed,
      outcome |-> IF r # None /\ r[1].placed THEN outcome ELSE "", before |-> LiveState ]

\* one iteration of `while self.running` in OrderFlowStrategy.run
live_tick(fetched) ==
    /\ component = "live"
    /\ phase = "running"
    /\ processed < MaxLiveTicks
    /\ \E snapshot \in {UpdateOrderbook(fetched, depth)} :
         /\ current_snapshot' = IF snapshot = None THEN current_snapshot ELSE snapshot
         /\ snapshots' = IF snapshot = None THEN snapshots
                         ELSE DequeAppend(snapshots, snapshot[1], SnapshotHistoryMax)
         /\ built' = IF snapshot = None THEN built ELSE Append(built, snapshot[1])
         /\ IF snapshot # None /\ GetOrderbookMetricsRaises(snapshot[1])
            THEN /\ phase' = "done"
                 /\ clock' = clock
                 /\ UNCHANGED <<signal_buffer, current_position, active_orders,
                                signals_history, last_order_time, order_count_today>>
                 /\ live_step' = Some(LiveHistory(fetched, snapshot, None, None, None, ""))
            ELSE \E signal \in {IF snapshot = None THEN None
                                ELSE GenerateSignal(snapshot[1], monitor_trades, clock,
                                                    bt_config.imbalance_threshold,
                                                    signal_strength_threshold)} :
                 \E c \in {IF signal = None THEN None
                           ELSE Some(ConfirmSignal(signal_buffer, signal[1],
                                                   confirmation_ticks,
                                                   signal_strength_threshold))} :
                 \E outcome \in OrderOutcomeSet, elapsed \in ElapsedSet :
                 \E r \in {IF signal = None THEN None
                           ELSE Some(LiveProcessSignal(LiveState, bt_config, c[1],
                                                       signal[1], clock, outcome))} :
                    /\ phase' = phase
                    /\ clock' = clock + elapsed
                    /\ signal_buffer' = IF signal = None THEN signal_buffer ELSE c[1].buffer
                    /\ current_position' = IF r = None THEN current_position
                                           ELSE r[1].state.current_position
                    /\ active_orders' = IF r = None THEN active_orders
                                        ELSE r[1].state.active_orders
                    /\ last_order_time' = IF r = None THEN last_order_time
                                          ELSE r[1].state.last_order_time
                    /\ order_count_today' = IF r = None THEN order_count_today
                                            ELSE r[1].state.order_count_today
                    /\ signals_history' = IF signal # None /\ c[1].confirmed
                                          THEN Append(signals_history, signal[1])
                                          ELSE signals_history
                    /\ live_step' = Some(LiveHistory(fetched, snapshot, signal, c, r, outcome))
    /\ processed' = processed + 1
    /\ UNCHANGED <<component, confirmation_ticks, signal_strength_threshold, fed, confirmed,
                   depth, query, imbalance_ret, weighted_ret, quoteVars, perfVars, engineVars,
                   bt_config, initial_balance, balance, position_entry_price, trade_records,
                   signals_generated, signals_executed, equity_curve, monitor_trades,
                   large_trades, clock_step, data_trades, last_orderbook, result, last_step,
                   daily_pnl, signal_ret>>

\* KeyboardInterrupt in run: the loop is left and shutdown sets running = False
live_shutdown ==
    /\ component = "live"
    /\ phase = "running"
    /\ phase' = "done"
    /\ UNCHANGED <<component, confVars, bookVars, quoteVars, perfVars, engineVars, bt_config,
                   initial_balance, ledgerVars, monitorVars, clock_step, data_trades,
                   processed, last_orderbook, result, last_step, liveVars>>

InitLive == InitLiveWith(LiveConfigSet)

NextLive ==
    \/ \E fetched \in FetchedSet : live_tick(fetched)
    \/ live_shutdown

SpecLive == InitLive /\ [][NextLive]_vars

(***************************************************************************)
(* generate_signal as a function of the analyzer's snapshot, the trades    *)
(* held by the trade-flow monitor, the clock and the two thresholds.       *)
(***************************************************************************)
\* raw books: the first two have a deep level that the weighted imbalance
\* (first DefaultDepthLevels levels) does not see, the last has prices 0
SignalBookSet ==
    { Fetched(<< <<R(100), R(1)>>, <<R(99), R(0)>>, <<R(98), R(0)>>, <<R(97), R(0)>>,
                 <<R(96), R(0)>>, <<R(95), R(100)>> >>, << <<R(101), R(5)>> >>),
      Fetched(<< <<R(100), R(5)>> >>,
              << <<R(101), R(1)>>, <<R(102), R(0)>>, <<R(103), R(0)>>, <<R(104), R(0)>>,
                 <<R(105), R(0)>>, <<R(106), R(100)>> >>),
      Fetched(<< <<R(100), R(8)>> >>,
              << <<R(101), R(1)>>, <<R(102), R(0)>>, <<R(103), R(0)>>, <<R(104), R(0)>>,
                 <<R(105), R(0)>>, <<R(106), R(7)>> >>),
      Fetched(<< <<R(100), R(9)>> >>, << <<R(101), R(1)>> >>),
      Fetched(<< <<R(100), R(1)>> >>, << <<R(101), R(9)>> >>),
      Fetched(<< <<R(100), R(1)>> >>, << <<R(101), R(1)>> >>),
      Fetched(<< <<R(100), R(0)>> >>, << <<R(101), R(4)>> >>),
      Fetched(<< <<R(0), R(1)>> >>, << <<R(0), R(1)>> >>) }

\* a Trade held by the monitor (its timestamp is the clock at add_trade)
MonitorTrade(price, size, side, timestamp) ==
    [price |-> price, size |-> size, side |-> side, timestamp |-> timestamp, trade_id |-> ""]

SignalTradesSet ==
    { <<>>,
      << MonitorTrade(R(100), R(1), "buy", 1000), MonitorTrade(R(101), R(1), "buy", 1000) >>,
      << MonitorTrade(R(101), R(1), "sell", 1000), MonitorTrade(R(100), R(1), "sell", 1000) >>,
      << MonitorTrade(R(101), R(3), "buy", 1000), MonitorTrade(R(100), R(1), "sell", 1000) >>,
      << MonitorTrade(R(100), R(3), "sell", 1000), MonitorTrade(R(101), R(1), "buy", 1000) >> }

InitSignal ==
    /\ component = "signal"
    /\ IdleQuote
    /\ IdlePerf
    /\ IdleEngine
    /\ IdleLive
    /\ confirmation_ticks = 1
    /\ signal_strength_threshold \in {Rat(3, 10), Rat(7, 10)}
    /\ signal_buffer = <<>>
    /\ fed = <<>>
    /\ confirmed = FALSE
    /\ depth = 20
    /\ snapshots = <<>>
    /\ current_snapshot \in {None} \cup
           {Some(MakeSnapshot(b[1].bids, b[1].asks, depth)) : b \in SignalBookSet}
    /\ query = None
    /\ imbalance_ret = None
    /\ weighted_ret = None
    /\ built = <<>>
    /\ bt_config \in [imbalance_threshold : {Rat(2, 10), Rat(6, 10)}]
    /\ initial_balance = R(10000)
    /\ balance = R(10000)
    /\ current_position = RZero
    /\ position_entry_price = RZero
    /\ trade_records = <<>>
    /\ signals_generated = 0
    /\ signals_executed = 0
    /\ equity_curve = <<R(10000)>>
    /\ monitor_trades \in SignalTradesSet
    /\ large_trades = <<>>
    /\ clock = 1000
    /\ clock_step = 0
    /\ data_trades = <<>>
    /\ processed = 0
    /\ last_orderbook = None
    /\ phase = "idle"
    /\ result = None
    /\ last_step = None

\* one call of generate_signal; what it returned is kept with the metrics it
\* read and the (direction, signal_strength) pair after each rule
generate_signal ==
    /\ component = "signal"
    /\ signal_ret = None
    /\ signal_ret' =
         IF current_snapshot = None
         THEN Some([raised |-> FALSE, signal |-> None, metrics |-> <<>>, trace |-> <<>>])
         ELSE IF GetOrderbookMetricsRaises(current_snapshot[1])
         THEN Some([raised |-> TRUE, signal |-> None, metrics |-> <<>>, trace |-> <<>>])
         ELSE Some([ raised |-> FALSE,
                     signal |-> GenerateSignal(current_snapshot[1], monitor_trades, clock,
                                               bt_config.imbalance_threshold,
                                               signal_strength_threshold),
                     metrics |-> SignalMetrics(current_snapshot[1], monitor_trades, clock),
                     trace |-> RuleTrace(SignalMetrics(current_snapshot[1], monitor_trades,
                                                       clock),
                                         bt_config.imbalance_threshold) ])
    /\ UNCHANGED <<component, confVars, bookVars, quoteVars, perfVars, engineVars,
                   backtestVars, active_orders, signals_history, last_order_time,
                   order_count_today, daily_pnl, live_step>>

NextSignal == generate_signal

SpecSignal == InitSignal /\ [][NextSignal]_vars

\* the two loops that turn order-book data into signals and orders: a
\* behaviour is a run of the back-test engine or a run of the live strategy
SpecLoops == (InitBacktest \/ InitLive) /\ [][NextBacktest \/ NextLive]_vars

\* C2: (BacktestEngine ledger) a position of size position_size opened at
\* price p and then fully closed by _close_position at the same price p has
\* pnl 0 for the close, and the close leaves the balance at its value before
\* the opening fill.
C2_RoundTripRestoresCash ==
    ( /\ component = "backtest"
      /\ last_step # None
      /\ last_step[1].closed # None
      /\ RAbs(last_step[1].closed[1].position) = bt_config.position_size
      /\ last_step[1].closed[1].price = last_step[1].closed[1].entry_price
      /\ last_step[1].closed[1].balance_before_open # None )
    => /\ last_step[1].closed[1].pnl = RZero
       /\ last_step[1].closed[1].balance_after =
              last_step[1].closed[1].balance_before_open[1]

\* C3: as long as no signal was generated in a run, no TradeRecord exists,
\* the position is 0, the balance is initial_balance and every point of
\* the equity curve is initial_balance; the returned result says the same.
C3_NoSignalNoTrade ==
    (component = "backtest" /\ signals_generated = 0)
    => /\ trade_records = <<>>
       /\ current_position = RZero
       /\ balance = initial_balance
       /\ \A i \in 1..Len(equity_curve) : equity_curve[i] = initial_balance
       /\ phase = "done" =>
            /\ result[1].trades = <<>>
            /\ result[1].final_balance = result[1].initial_balance
            /\ \A i \in 1..Len(result[1].equity_curve) :
                   result[1].equity_curve[i] = result[1].initial_balance

C3_Witness ==
    /\ component = "backtest"
    /\ phase = "done"
    /\ signals_generated = 0
    /\ processed >= 2
    /\ monitor_trades # <<>>
    /\ Len(result[1].equity_curve) = processed + 1

\* C5: (BacktestEngine ledger) when _execute_signal refuses a buy because
\* its cost exceeds the balance, the ledger (balance, position, entry
\* price, trade list, executed-signal count) is what it was before the call.
C5_RefusedBuyLeavesLedger ==
    ( /\ component = "backtest"
      /\ last_step # None
      /\ last_step[1].kind = "execute"
      /\ last_step[1].refused )
    => Ledger = last_step[1].before[1]

\* The price change of an open position, relative to its average entry
\* price, breaches the stop-loss threshold at current_price.
StopLossBreached(e, c, current_price) ==
    /\ e.position # RZero
    /\ RLt(RZero, e.avg_entry_price)
    /\ LET change == RDiv(RSub(current_price, e.avg_entry_price), e.avg_entry_price)
       IN  IF RLt(RZero, e.position) THEN RLe(change, RNeg(c.stop_loss_pct))
           ELSE RLe(c.stop_loss_pct, change)

\* The iteration in progress (or just finished) processed its record, and
\* the position it found open breached the stop-loss at the record's price.
BreachTick ==
    /\ component = "precise_run"
    /\ tick_note # None
    /\ ~tick_note[1].skipped
    /\ StopLossBreached(tick_note[1].before, EngineConfig, record[1].mid_price)

\* C4: on every tick the precise backtest processes (a record with a
\* non-positive quote is passed over) on which the open position breaches
\* the stop-loss, the first trade the tick appends is the close of the full
\* position at the record's mid price with close_reason "STOP_LOSS" and
\* position_after 0; the position is 0 when the signal check of the tick
\* begins, and whatever the signal check trades comes after that close.
C4_StopLossBeforeSignal ==
    BreachTick =>
        LET before == tick_note[1].before
            n == Len(before.trades) + 1
        IN  /\ Len(trades) >= n
            /\ trades[n].close_reason = Some("STOP_LOSS")
            /\ trades[n].timestamp = record[1].unix_time
            /\ trades[n].price = record[1].mid_price
            /\ trades[n].size = RAbs(before.position)
            /\ trades[n].type = (IF RLt(RZero, before.position) THEN "SELL" ELSE "BUY")
            /\ trades[n].position_after = RZero
            /\ tick_note[1].stop_reason = Some("STOP_LOSS")
            /\ stop_loss_triggered = before.stop_loss_triggered + 1
            /\ run_pc = "signal" => (position = RZero /\ Len(trades) = n)
            /\ run_pc = "fetch" =>
                   /\ tick_note[1].at_signal # None
                   /\ tick_note[1].at_signal[1].position = RZero
                   /\ tick_note[1].at_signal[1].trades = SubSeq(trades, 1, n)

\* A long position was stopped out and the signal check of the same tick
\* then opened a new position.
C4_Witness ==
    /\ BreachTick
    /\ run_pc = "fetch"
    /\ RLt(RZero, tick_note[1].before.position)
    /\ tick_note[1].executed
    /\ Len(trades) = Len(tick_note[1].before.trades) + 2
    /\ position # RZero

\* The example of C10: capital 10000, fee rate 0.0005, a buy of 0.1 at
\* 2000 and then, as the call just made, a sell of 0.1 at 2010.
ExampleRoundTrip ==
    /\ component \in {"precise", "simple"}
    /\ initial_capital = R(10000)
    /\ fee_rate = Rat(5, 10000)
    /\ position_size = Rat(1, 10)
    /\ last_call # None
    /\ last_call[1].n = 2
    /\ last_call[1].op = "execute_trade"
    /\ last_call[1].direction = "sell"
    /\ last_call[1].price = R(2010)
    /\ last_call[1].ok
    /\ Len(last_call[1].before.trades) = 1
    /\ last_call[1].before.trades[1].type = "BUY"
    /\ last_call[1].before.trades[1].price = R(2000)

\* C10 as stated: the pnl of the close of the example is about 0.9985
\* (within 0.01 of it).
C10_PnlAbout09985 ==
    ExampleRoundTrip =>
        /\ last_call[1].pnl # None
        /\ RLe(RAbs(RSub(last_call[1].pnl[1], Rat(9985, 10000))), Rat(1, 100))

\* C10, amended: the pnl of the close of the example is (2010-2000)*0.1
\* less the exit fee 0.1005 only, 0.8995, and that is what total_profit
\* gains; the entry fee 0.1 is taken from cash alone, so cash ends at
\* 10000.7995, the gain net of both fees.
C10_PnlNetOfExitFee ==
    ExampleRoundTrip =>
        /\ last_call[1].pnl = Some(Rat(8995, 10000))
        /\ total_profit = Rat(8995, 10000)
        /\ cash = RAdd(R(10000), Rat(7995, 10000))
        /\ position = RZero

C10_Witness ==
    /\ ExampleRoundTrip
    /\ component = "precise"
    /\ total_fees = Rat(2005, 10000)

\* C11: confirm_signal returns true exactly when, after the append, the
\* buffer holds at least confirmation_ticks signals, the most recent
\* confirmation_ticks of them have one direction and the average of their
\* strengths is >= signal_strength_threshold.
C11_ConfirmedIffMeanReachesThreshold ==
    (component = "confirm" /\ fed # <<>>)
    => ( confirmed <=>
           /\ Len(signal_buffer) >= confirmation_ticks
           /\ \A i, j \in 1..Len(LastK(signal_buffer, confirmation_ticks)) :
                  LastK(signal_buffer, confirmation_ticks)[i].direction =
                  LastK(signal_buffer, confirmation_ticks)[j].direction
           /\ RLe(signal_strength_threshold,
                  MeanStrength(LastK(signal_buffer, confirmation_ticks))) )

\* C12: in an iteration of BacktestEngine.run or of OrderFlowStrategy.run
\* the execute step is reached only when the iteration generated a signal
\* and the confirmation (on the buffer holding that signal) was positive;
\* an iteration whose signal is absent or unconfirmed places no order and
\* leaves position and cash (and the other ledger fields) as they were.
\* The end of the back-test run (its forced close) is not an iteration.
C12_ExecuteOnlyWhenConfirmed ==
    [][ /\ (component = "backtest" /\ processed' # processed)
           => /\ last_step'[1].kind = "execute"
                 => /\ last_step'[1].signal # None
                    /\ signal_buffer' # <<>>
                    /\ signal_buffer'[Len(signal_buffer')] = last_step'[1].signal[1]
                    /\ ConfirmResult(signal_buffer', confirmation_ticks,
                                     signal_strength_threshold)
              /\ last_step'[1].kind # "execute"
                 => /\ balance' = balance
                    /\ current_position' = current_position
                    /\ position_entry_price' = position_entry_price
                    /\ trade_records' = trade_records
                    /\ signals_executed' = signals_executed
        /\ (component = "live" /\ processed' # processed)
           => /\ live_step'[1].placed
                 => /\ live_step'[1].signal # None
                    /\ signal_buffer' # <<>>
                    /\ signal_buffer'[Len(signal_buffer')] = live_step'[1].signal[1]
                    /\ ConfirmResult(signal_buffer', confirmation_ticks,
                                     signal_strength_threshold)
              /\ ~live_step'[1].placed
                 => /\ current_position' = current_position
                    /\ active_orders' = active_orders
                    /\ order_count_today' = order_count_today
                    /\ last_order_time' = last_order_time
      ]_vars

C12_Witness ==
    /\ component = "backtest"
    /\ phase = "running"
    /\ last_step # None
    /\ last_step[1].kind = "none"
    /\ last_step[1].signal # None
    /\ current_position # RZero
    /\ trade_records # <<>>

\* the metric of rule k has the sign opposite to direction d
OpposesDirection(value, d) ==
    \/ (d = "buy" /\ RLt(value, RZero))
    \/ (d = "sell" /\ RLt(RZero, value))

\* C13: in a call of generate_signal, once a rule has set direction no
\* later rule changes it; a later rule whose metric has the opposite sign
\* leaves direction and strength as they were; and when |imbalance| exceeds
\* imbalance_threshold an emitted signal has the direction of the sign of
\* the order-book imbalance, whatever the other three metrics are.
C13_FirstDirectionWins ==
    (component = "signal" /\ signal_ret # None /\ signal_ret[1].trace # <<>>)
    => LET m == signal_ret[1].metrics
           t == signal_ret[1].trace
       IN  /\ \A k \in 1..3 : t[k].direction # "" => t[k + 1].direction = t[k].direction
           /\ \A k \in 2..4 : OpposesDirection(m[k], t[k - 1].direction) => t[k] = t[k - 1]
           /\ (RLt(bt_config.imbalance_threshold, RAbs(m[1])) /\ signal_ret[1].signal # None)
              => signal_ret[1].signal[1].direction =
                    (IF RLt(RZero, m[1]) THEN "buy" ELSE "sell")

C13_Witness ==
    /\ component = "signal"
    /\ signal_ret # None
    /\ signal_ret[1].signal # None
    /\ signal_ret[1].signal[1].direction = "buy"
    /\ RLt(bt_config.imbalance_threshold, signal_ret[1].metrics[1])
    /\ RLt(signal_ret[1].metrics[2], RNeg(bt_config.imbalance_threshold))
    /\ RLt(signal_ret[1].metrics[3], RNeg(Rat(3, 10)))
    /\ RLt(signal_ret[1].metrics[4], RNeg(Rat(1, 1000)))
    /\ signal_ret[1].trace[4] = signal_ret[1].trace[1]

\* C14: generate_signal returns no signal when the rules left direction
\* unset or the accumulated strength is below signal_strength_threshold;
\* otherwise it returns a signal with the direction the rules set, strength
\* min(accumulated strength, 1) (which lies in [0, 1]) and price best_ask
\* for a buy, best_bid for a sell.
C14_SignalEmittedAsSpecified ==
    (component = "signal" /\ signal_ret # None /\ signal_ret[1].trace # <<>>)
    => LET acc == signal_ret[1].trace[4]
           sig == signal_ret[1].signal
       IN  IF acc.direction = "" \/ RLt(acc.strength, signal_strength_threshold)
           THEN sig = None
           ELSE /\ sig # None
                /\ sig[1].direction = acc.direction
                /\ sig[1].strength = RMin(acc.strength, ROne)
                /\ RLe(RZero, sig[1].strength)
                /\ RLe(sig[1].strength, ROne)
                /\ sig[1].direction = "buy" => sig[1].price = current_snapshot[1].best_ask
                /\ sig[1].direction = "sell" => sig[1].price = current_snapshot[1].best_bid

C14_Witness ==
    /\ component = "signal"
    /\ signal_ret # None
    /\ signal_ret[1].signal # None
    /\ signal_ret[1].signal[1].direction = "sell"
    /\ signal_ret[1].signal[1].price = current_snapshot[1].best_bid
    /\ current_snapshot[1].best_bid # current_snapshot[1].best_ask
    /\ signal_ret[1].signal[1].strength = signal_ret[1].trace[4].strength
    /\ RLe(signal_strength_threshold, signal_ret[1].signal[1].strength)
    /\ signal_strength_threshold = Rat(7, 10)

\* C15: when BacktestEngine.run has finished, current_position is 0; a
\* position that was open after the last order book has been closed at the
\* mid price of that book, and the closing TradeRecord (opposite direction,
\* the whole position, its realized pnl) is the last of the trade list
\* that the metrics of the result were computed from.
C15_FinishedRunIsFlat ==
    (component = "backtest" /\ phase = "done")
    => /\ current_position = RZero
       /\ result # None
       /\ result[1].trades = trade_records
       /\ result[1].metrics = CalculateMetrics(trade_records, initial_balance)
       /\ result[1].metrics.total_trades = Len(trade_records)
       /\ LET before == last_step[1].before[1]
              price == RDiv(RAdd(last_orderbook[1].best_bid, last_orderbook[1].best_ask), R(2))
          IN  IF before.current_position = RZero
              THEN trade_records = before.trades
              ELSE trade_records =
                     Append(before.trades,
                            [ timestamp |-> last_orderbook[1].timestamp,
                              direction |-> IF RLt(RZero, before.current_position)
                                            THEN "sell" ELSE "buy",
                              price |-> price,
                              size |-> RAbs(before.current_position),
                              pnl |-> IF RLt(RZero, before.current_position)
                                      THEN RMul(RSub(price, before.position_entry_price),
                                                before.current_position)
                                      ELSE RMul(RSub(before.position_entry_price, price),
                                                RNeg(before.current_position)) ])

C15_Witness ==
    /\ component = "backtest"
    /\ phase = "done"
    /\ last_step[1].before[1].current_position # RZero
    /\ Len(trade_records) >= 2
    /\ trade_records[Len(trade_records)].pnl # RZero
    /\ result[1].metrics.total_pnl # RZero

\* the call recorded in last_call closed (part of) a position
FillCloses(call) ==
    \/ call.op = "check_stop_loss_take_profit"
    \/ (call.direction = "buy" /\ RLt(call.before.position, RZero))
    \/ (call.direction = "sell" /\ RLt(RZero, call.before.position))

\* C16: (PreciseBacktestEngine) every fill, forced stop-loss / take-profit
\* closes included, appends exactly one trade record; the pnl of the record
\* is absent when the fill only opened or added to a position and present
\* when the fill closed a position, fully or partially.
C16_FillRecordsPnlOfCloses ==
    (component = "precise" /\ last_call # None /\ last_call[1].ok)
    => /\ Len(trades) = Len(last_call[1].before.trades) + 1
       /\ SubSeq(trades, 1, Len(trades) - 1) = last_call[1].before.trades
       /\ (trades[Len(trades)].pnl # None) <=> FillCloses(last_call[1])

\* C17: (BacktestEngine ledger, which charges no fee: fee_rate 0) a fill
\* that buys decreases the cash by price * size and a fill that sells
\* increases it by price * size, size being the whole size of the fill;
\* this includes the fill that closes a position (a sell of the whole
\* long, a buy of the whole short) before a signal opens the opposite one
\* or at the end of the run.
C17_FillMovesCashByNotional ==
    (component = "backtest" /\ last_step # None /\ last_step[1].before # None)
    => LET h == last_step[1]
           b == h.before[1]
       IN  /\ h.closed # None
              => h.closed[1].balance_after =
                    (IF RLt(RZero, b.current_position)
                     THEN RAdd(b.balance, RMul(h.closed[1].price, RAbs(b.current_position)))
                     ELSE RSub(b.balance, RMul(h.closed[1].price, RAbs(b.current_position))))
           /\ h.opened
              => balance =
                    (IF h.signal[1].direction = "buy"
                     THEN RSub(h.balance_before_open[1],
                               RMul(h.signal[1].price, bt_config.position_size))
                     ELSE RAdd(h.balance_before_open[1],
                               RMul(h.signal[1].price, bt_config.position_size)))

\* the size-weighted average entry price after a fill of fill_size at
\* fill_price is added to a position of old_size entered at old_avg
WeightedEntryPrice(old_avg, old_size, fill_price, fill_size) ==
    RDiv(RAdd(RMul(old_avg, RAbs(old_size)), RMul(fill_price, fill_size)),
         RAdd(RAbs(old_size), fill_size))

\* C18: (BacktestEngine ledger) when a fill adds to a position of the same
\* direction, the entry price becomes the size-weighted average of the old
\* entry price and the fill price; when a fill flips the sign of the
\* position, the entry price is reset to the fill price.
C18_EntryPriceIsWeightedAverage ==
    (component = "backtest" /\ last_step # None /\ last_step[1].before # None
        /\ last_step[1].opened)
    => LET h == last_step[1]
           b == h.before[1]
       IN  /\ (b.current_position # RZero /\ h.closed = None)
              => position_entry_price =
                    WeightedEntryPrice(b.position_entry_price, b.current_position,
                                       h.signal[1].price, bt_config.position_size)
           /\ h.closed # None => position_entry_price = h.signal[1].price

\* a snapshot whose two sides are non-empty and whose best bid is above its
\* best ask
Crossed(snapshot) ==
    /\ snapshot.bids # <<>>
    /\ snapshot.asks # <<>>
    /\ RLt(snapshot.best_ask, snapshot.best_bid)

\* C19: (live loop) the snapshot held by the OrderBookAnalyzer, when both
\* of its sides are non-empty, has best_bid <= best_ask, and so has every
\* snapshot in its history; a crossed book fetched by update_orderbook is
\* not stored and no signal is generated from it.
C19_StoredSnapshotIsNotCrossed ==
    component = "live"
    => /\ current_snapshot # None => ~Crossed(current_snapshot[1])
       /\ \A i \in 1..Len(snapshots) : ~Crossed(snapshots[i])
       /\ (live_step # None /\ live_step[1].snapshot # None
             /\ Crossed(live_step[1].snapshot[1]))
          => live_step[1].signal = None

\* the engine as BacktestEngine.__init__ leaves it, before run
FreshEngine ==
    [ L |-> [ balance |-> initial_balance, current_position |-> RZero,
              position_entry_price |-> RZero, trades |-> <<>>,
              signals_generated |-> 0, signals_executed |-> 0,
              signal_buffer |-> <<>> ],
      m |-> [trades |-> <<>>, large_trades |-> <<>>],
      equity_curve |-> <<initial_balance>>,
      now |-> 0 ]

\* one iteration of the loop of BacktestEngine.run from engine state S, for
\* the order book whose snapshot is `snapshot`, the wall clock having moved
\* by `step` seconds since the previous iteration
ReplayTick(S, snapshot, timestamp, step) ==
    LET now == S.now + step
        m == MonitorAddAll(S.m,
                           GetTradesInRange(data_trades,
                                            timestamp - bt_config.trade_flow_window,
                                            timestamp),
                           now, bt_config.trade_flow_window,
                           bt_config.large_order_threshold)
        signal == GenerateSignal(snapshot, m.trades, now, bt_config.imbalance_threshold,
                                 signal_strength_threshold)
        L1 == IF signal = None THEN S.L
              ELSE ProcessSignal(S.L, bt_config,
                                 ConfirmSignal(S.L.signal_buffer, signal[1],
                                               confirmation_ticks,
                                               signal_strength_threshold),
                                 signal[1], timestamp)
    IN  [ L |-> L1, m |-> m,
          equity_curve |-> Append(S.equity_curve, CurrentEquity(L1, mid_price(snapshot))),
          now |-> now ]

RECURSIVE Replay(_, _)
\* the loop of BacktestEngine.run over the order books whose snapshots are
\* `books`, the wall clock moving by `step` seconds per iteration
Replay(books, step) ==
    IF books = <<>> THEN FreshEngine
    ELSE ReplayTick(Replay(SubSeq(books, 1, Len(books) - 1), step),
                    books[Len(books)], Len(books), step)

\* what run returns after that loop
ReplayResult(books, step) ==
    LET S == Replay(books, step)
        L1 == IF S.L.current_position # RZero
              THEN ClosePosition(S.L, mid_price(books[Len(books)]), Len(books))
              ELSE S.L
    IN  [ trades |-> L1.trades, equity_curve |-> S.equity_curve,
          signals_generated |-> L1.signals_generated,
          signals_executed |-> L1.signals_executed,
          final_balance |-> L1.balance ]

\* the same fields of the result the run under way has returned
RunResult ==
    [ trades |-> result[1].trades, equity_curve |-> result[1].equity_curve,
      signals_generated |-> result[1].signals_generated,
      signals_executed |-> result[1].signals_executed,
      final_balance |-> result[1].final_balance ]

\* C20: (BacktestEngine.run) a finished run returns the trade list, the
\* equity curve, the signal counts and the final balance that the run over
\* the same order books, trades and configuration returns when the wall
\* clock does not move at all between its iterations: the result does not
\* depend on how fast the run executes.
C20_ResultIndependentOfWallClock ==
    (component = "backtest" /\ phase = "done" /\ processed > 0)
    => RunResult = ReplayResult(snapshots, 0)

(***************************************************************************)
(* The snapshot history of a long-lived OrderBookAnalyzer: behaviours that *)
(* start after many update_snapshot calls, around the deque's maxlen.      *)
(***************************************************************************)
MaxHistoryLen == 102

\* the arguments of the n-th update_snapshot call of the history so far
SerialBids(n, size) == << <<R(n), R(size)>> >>
SerialAsks(n) == << <<R(n + 1), ROne>> >>

\* the analyzer fields after one more update_snapshot call
AnalyzerAfterUpdate(a, bids, asks, d) ==
    [ snapshots |-> DequeAppend(a.snapshots, MakeSnapshot(bids, asks, d), SnapshotHistoryMax),
      current_snapshot |-> Some(MakeSnapshot(bids, asks, d)),
      built |-> Append(a.built, MakeSnapshot(bids, asks, d)) ]

RECURSIVE AnalyzerAfterCalls(_, _, _, _)
\* the analyzer fields after the update_snapshot calls number lo to hi, in
\* that order, on an analyzer with fields a (the range is split in halves)
AnalyzerAfterCalls(a, lo, hi, d) ==
    IF lo > hi THEN a
    ELSE IF lo = hi THEN AnalyzerAfterUpdate(a, SerialBids(lo, 1), SerialAsks(lo), d)
    ELSE CHOOSE after \in { AnalyzerAfterCalls(half, (lo + hi) \div 2 + 1, hi, d) :
                              half \in {AnalyzerAfterCalls(a, lo, (lo + hi) \div 2, d)} } : TRUE

\* the analyzer fields after n update_snapshot calls on a new analyzer
AnalyzerAfter(n, d) ==
    AnalyzerAfterCalls([snapshots |-> <<>>, current_snapshot |-> None, built |-> <<>>],
                       1, n, d)

InitHistory ==
    /\ component = "history"
    /\ IdleLive
    /\ IdleConfirm
    /\ IdleQuote
    /\ IdlePerf
    /\ IdleEngine
    /\ IdleBacktest
    /\ depth = 20
    /\ \E n \in (SnapshotHistoryMax - 2)..(SnapshotHistoryMax + 1) :
       \E a \in {AnalyzerAfter(n, 20)} :
          /\ snapshots = a.snapshots
          /\ current_snapshot = a.current_snapshot
          /\ built = a.built
    /\ query = None
    /\ imbalance_ret = None
    /\ weighted_ret = None

\* OrderBookAnalyzer.update_snapshot on an analyzer with a long history
update_snapshot_late(bids, asks) ==
    /\ component = "history"
    /\ Len(built) < MaxHistoryLen
    /\ \E a \in {AnalyzerAfterUpdate([snapshots |-> snapshots,
                                     current_snapshot |-> current_snapshot,
                                     built |-> built], bids, asks, depth)} :
          /\ snapshots' = a.snapshots
          /\ current_snapshot' = a.current_snapshot
          /\ built' = a.built
    /\ UNCHANGED <<component, confVars, quoteVars, perfVars, engineVars, backtestVars, liveVars, depth, query, imbalance_ret, weighted_ret>>

NextHistory ==
    \E size \in 1..3 : update_snapshot_late(SerialBids(Len(built) + 1, size),
                                            SerialAsks(Len(built) + 1))

SpecHistory == InitHistory /\ [][NextHistory]_vars

\* C21: after any sequence of update_snapshot calls the analyzer retains at
\* most 100 snapshots, they are the most recently built ones in the order
\* they were built (the oldest is evicted first), and current_snapshot is
\* the last one built.
C21_HistoryKeepsMostRecent ==
    component = "history"
    => /\ Len(snapshots) <= 100
       /\ Len(snapshots) = (IF Len(built) < 100 THEN Len(built) ELSE 100)
       /\ \A i \in 1..Len(snapshots) :
             snapshots[i] = built[Len(built) - Len(snapshots) + i]
       /\ built # <<>> => current_snapshot = Some(built[Len(built)])

C21_Witness ==
    /\ component = "history"
    /\ Len(built) = 102
    /\ Len(snapshots) = 100
    /\ snapshots[1] = built[3]
    /\ snapshots[1] # built[1]
    /\ current_snapshot = Some(built[102])

(***************************************************************************)
(* TradeFlowMonitor on its own: add_trade calls at moving wall-clock time. *)
(***************************************************************************)
MaxMonitorCalls == 3

\* the (price, size, side, trade_id) arguments of add_trade: values of 100,
\* 50000 (the threshold itself) and 49500
MonitorInputSet ==
    { [price |-> R(100), size |-> R(1), side |-> "buy", trade_id |-> "a"],
      [price |-> R(100), size |-> R(500), side |-> "sell", trade_id |-> "b"],
      [price |-> R(99), size |-> R(500), side |-> "buy", trade_id |-> "c"] }

\* seconds between two add_trade calls, and between the two time.time()
\* readings inside one call (time.time() taken as non-decreasing)
MonitorElapsedSet == {0, 30, 61}
CleanupDelaySet == {0, 1}

InitMonitor ==
    /\ component = "monitor"
    /\ IdleLive
    /\ IdleConfirm
    /\ IdleBook
    /\ IdleQuote
    /\ IdlePerf
    /\ IdleEngine
    /\ bt_config \in [trade_flow_window : {60}, large_order_threshold : {R(50000)}]
    /\ initial_balance = R(10000)
    /\ balance = R(10000)
    /\ current_position = RZero
    /\ position_entry_price = RZero
    /\ trade_records = <<>>
    /\ signals_generated = 0
    /\ signals_executed = 0
    /\ equity_curve = <<R(10000)>>
    /\ monitor_trades = <<>>
    /\ large_trades = <<>>
    /\ clock = 1000
    /\ clock_step = 0
    /\ data_trades = <<>>
    /\ processed = 0
    /\ last_orderbook = None
    /\ phase = "idle"
    /\ result = None
    /\ last_step = None

\* TradeFlowMonitor.add_trade(price, size, side, trade_id)
add_trade(t) ==
    /\ component = "monitor"
    /\ processed < MaxMonitorCalls
    /\ \E elapsed \in MonitorElapsedSet, delay \in CleanupDelaySet :
       \E m \in {MonitorAddTradeAt([trades |-> monitor_trades, large_trades |-> large_trades],
                                   t, clock + elapsed, clock + elapsed + delay,
                                   bt_config.trade_flow_window,
                                   bt_config.large_order_threshold)} :
          /\ monitor_trades' = m.trades
          /\ large_trades' = m.large_trades
          /\ clock' = clock + elapsed + delay
          /\ last_step' = Some([ kind |-> "add_trade", stamp |-> clock + elapsed,
                                 now |-> clock + elapsed + delay,
                                 before |-> [trades |-> monitor_trades,
                                             large_trades |-> large_trades] ])
    /\ processed' = processed + 1
    /\ UNCHANGED <<component, confVars, bookVars, quoteVars, perfVars, engineVars, liveVars,
                   bt_config, initial_balance, ledgerVars, clock_step, data_trades,
                   last_orderbook, phase, result>>

NextMonitor == \E t \in MonitorInputSet : add_trade(t)

SpecMonitor == InitMonitor /\ [][NextMonitor]_vars

\* the timestamps of q never decrease from one trade to the next
TimeOrdered(q) == \A i \in 1..(Len(q) - 1) : q[i].timestamp <= q[i + 1].timestamp

\* every trade of q is stamped at cutoff_time or later
AllSince(q, cutoff_time) == \A i \in 1..Len(q) : q[i].timestamp >= cutoff_time

\* C22: immediately after every add_trade call, every trade retained in the
\* main window and in the large-trade window has a timestamp >= (the time
\* of the call's cleanup - window_seconds), and the retained trades are in
\* non-decreasing timestamp order.
C22_WindowHoldsOnlyRecentTrades ==
    (component = "monitor" /\ last_step # None)
    => /\ AllSince(monitor_trades, last_step[1].now - bt_config.trade_flow_window)
       /\ AllSince(large_trades, last_step[1].now - bt_config.trade_flow_window)
       /\ TimeOrdered(monitor_trades)
       /\ TimeOrdered(large_trades)

\* the third call evicted the first trade, a large one stamped 61 s before
\* the cleanup, from both windows and kept the second
C22_Witness ==
    /\ component = "monitor"
    /\ processed = 3
    /\ last_step[1].now = 1061
    /\ Len(last_step[1].before.trades) = 2
    /\ Len(last_step[1].before.large_trades) = 1
    /\ last_step[1].before.trades[1].timestamp = 1000
    /\ Len(monitor_trades) = 2
    /\ monitor_trades[1].timestamp = 1030
    /\ large_trades = <<>>

\* the value of a Trade
TradeValue(t) == RMul(t.price, t.size)

\* C26: after any sequence of add_trade calls the large-trade window holds
\* exactly the trades of the main window whose value price * size is >=
\* large_order_threshold, in the same order.
C26_LargeWindowIsFilterOfMain ==
    component = "monitor"
    => large_trades =
          SelectSeq(monitor_trades,
                    LAMBDA t : RLe(bt_config.large_order_threshold, TradeValue(t)))

\* three trades are held, of value 49500, 50000 and 100: the large window
\* holds the second only
C26_Witness ==
    /\ component = "monitor"
    /\ Len(monitor_trades) = 3
    /\ TradeValue(monitor_trades[1]) = R(49500)
    /\ TradeValue(monitor_trades[2]) = R(50000)
    /\ TradeValue(monitor_trades[3]) = R(100)
    /\ large_trades = <<monitor_trades[2]>>

\* the engines that fill orders against a position: a behaviour is a
\* sequence of calls on one of the script engines or a run of BacktestEngine
SpecFills == (InitEngine \/ InitBacktest) /\ [][NextEngine \/ NextBacktest]_vars

\* (exit - entry) * closed_size for a long position, (entry - exit) *
\* closed_size for a short one
RealizedPnl(pos, entry, exit, closed_size) ==
    IF RLt(RZero, pos) THEN RMul(RSub(exit, entry), closed_size)
    ELSE RMul(RSub(entry, exit), closed_size)

\* the position after a fill of `size` in `direction`
PositionAfterFill(pos, direction, size) ==
    IF direction = "buy" THEN RAdd(pos, size) ELSE RSub(pos, size)

\* C23, script engines: an executed fill against an opposite position adds
\* RealizedPnl of closed_size = min(fill size, |position|), minus the fee,
\* to total_profit; the position moves by the whole fill size, and when the
\* fill is larger than closed_size the entry price is the fill price.
C23_ScriptEngineClose ==
    (component \in {"precise", "simple"} /\ last_call # None /\ last_call[1].ok
        /\ last_call[1].op = "execute_trade" /\ FillCloses(last_call[1]))
    => LET call == last_call[1]
           b == call.before
           closed_size == RMin(position_size, RAbs(b.position))
           fee == RMul(RMul(call.price, position_size), fee_rate)
       IN  /\ total_profit =
                 RAdd(b.total_profit,
                      RSub(RealizedPnl(b.position, b.avg_entry_price, call.price, closed_size),
                           fee))
           /\ position = PositionAfterFill(b.position, call.direction, position_size)
           /\ RLt(closed_size, position_size) => avg_entry_price = call.price

\* C23, BacktestEngine (no fee): _close_position records RealizedPnl of the
\* whole position, closed_size = |position|, in the closing TradeRecord;
\* the position that the same signal then opens in the new direction has
\* the signal price as entry price.
C23_BacktestClose ==
    (component = "backtest" /\ last_step # None /\ last_step[1].before # None
        /\ last_step[1].closed # None)
    => LET h == last_step[1]
           b == h.before[1]
           closing == trade_records[Len(b.trades) + 1]
       IN  /\ Len(trade_records) > Len(b.trades)
           /\ closing.size = RAbs(b.current_position)
           /\ closing.pnl = RealizedPnl(b.current_position, b.position_entry_price,
                                        closing.price, closing.size)
           /\ h.opened
              => /\ position_entry_price = h.signal[1].price
                 /\ current_position =
                       PositionAfterFill(RZero, h.signal[1].direction, bt_config.position_size)

PriceChangePct(before, current_price) ==
    RDiv(RSub(current_price, before.avg_entry_price), before.avg_entry_price)

\* C24: a check_stop_loss_take_profit call on a long position returns
\* TAKE_PROFIT exactly when price_change_pct >= take_profit_pct and STOP_LOSS
\* exactly when price_change_pct <= -stop_loss_pct; on a short position it
\* returns TAKE_PROFIT exactly when price_change_pct <= -take_profit_pct and
\* STOP_LOSS exactly when price_change_pct >= stop_loss_pct; it closes the
\* position exactly when it returns a reason; and with no open position it
\* returns (False, None) and leaves the engine as it found it.
C24_StopTakeTriggers ==
    (/\ component = "precise"
     /\ last_call # None
     /\ last_call[1].op = "check_stop_loss_take_profit") =>
        LET before == last_call[1].before
            reason == last_call[1].reason
            long == RLt(RZero, before.position)
            short == RLt(before.position, RZero)
        IN  /\ last_call[1].ok <=> reason # None
            /\ reason \in {None, Some("TAKE_PROFIT"), Some("STOP_LOSS")}
            /\ (long \/ short) => before.avg_entry_price # RZero
            /\ long =>
                  LET pct == PriceChangePct(before, last_call[1].price)
                  IN  /\ reason = Some("TAKE_PROFIT") <=> RLe(take_profit_pct, pct)
                      /\ reason = Some("STOP_LOSS") <=> RLe(pct, RNeg(stop_loss_pct))
            /\ short =>
                  LET pct == PriceChangePct(before, last_call[1].price)
                  IN  /\ reason = Some("TAKE_PROFIT") <=> RLe(pct, RNeg(take_profit_pct))
                      /\ reason = Some("STOP_LOSS") <=> RLe(stop_loss_pct, pct)
            /\ before.position = RZero =>
                  /\ ~last_call[1].ok
                  /\ reason = None
                  /\ Engine = before
            /\ last_call[1].ok => Engine.position = RZero

\* A short position entered at 2000 is marked at 2020, exactly stop_loss_pct
\* above its entry, and is stopped out.
C24_Witness ==
    /\ component = "precise"
    /\ last_call # None
    /\ last_call[1].op = "check_stop_loss_take_profit"
    /\ RLt(last_call[1].before.position, RZero)
    /\ last_call[1].before.avg_entry_price = R(2000)
    /\ last_call[1].price = R(2020)
    /\ stop_loss_pct = Rat(1, 100)
    /\ last_call[1].reason = Some("STOP_LOSS")
    /\ Engine.position = RZero


(***************************************************************************)
(* The retention rule of the confirmation buffer.                          *)
(***************************************************************************)
\* C25: after every confirm_signal call the buffer holds at most
\* 2 * confirmation_ticks signals, and they are the most recently fed ones in
\* the order they were fed.
C25_BufferKeepsMostRecent ==
    component = "confirm" =>
        /\ Len(signal_buffer) <= 2 * confirmation_ticks
        /\ Len(signal_buffer) = IF Len(fed) <= 2 * confirmation_ticks
                                THEN Len(fed) ELSE 2 * confirmation_ticks
        /\ \A i \in 1..Len(signal_buffer) :
               signal_buffer[i] = fed[Len(fed) - Len(signal_buffer) + i]

\* Five signals fed with confirmation_ticks = 2: the first, unlike the second,
\* has been dropped and the buffer starts at the second.
C25_Witness ==
    /\ component = "confirm"
    /\ confirmation_ticks = 2
    /\ Len(fed) = 5
    /\ Len(signal_buffer) = 4
    /\ fed[1] # fed[2]
    /\ signal_buffer[1] = fed[2]
    /\ signal_buffer[4] = fed[5]


(***************************************************************************)
(* Inventory skew and tick rounding of calculate_maker_prices.             *)
(***************************************************************************)
\* target_spread of calculate_maker_prices: the configured or proportional
\* spread, raised to min_spread.
TargetSpread(snapshot, cfg) ==
    LET wanted == IF cfg.spread_type = "fixed" THEN cfg.target_spread
                  ELSE RMul(RSub(snapshot.best_ask, snapshot.best_bid), cfg.spread_ratio)
    IN  IF RLt(wanted, cfg.min_spread) THEN cfg.min_spread ELSE wanted

\* mid_price of calculate_maker_prices
MidPrice(snapshot) == RDiv(RAdd(snapshot.best_bid, snapshot.best_ask), R(2))

\* skew_adjustment of calculate_maker_prices
SkewAdjustment(snapshot, cfg, inventory) ==
    LET skew_factor == IF RLt(RZero, cfg.max_position)
                       THEN RDiv(inventory, cfg.max_position) ELSE RZero
    IN  RMul(RMul(TargetSpread(snapshot, cfg), skew_factor), cfg.inventory_skew_factor)

\* The last two steps of calculate_maker_prices: both prices rounded to the
\* tick, then the bid moved one tick under the ask if it is not below it.
RoundedQuotes(bid_price, ask_price, tick) ==
    LET bid1 == RoundToTick(bid_price, tick)
        ask1 == RoundToTick(ask_price, tick)
    IN  [ kind |-> "prices",
          bid_price |-> IF RLe(ask1, bid1) THEN RSub(ask1, tick) ELSE bid1,
          ask_price |-> ask1 ]

RoundHalfUp(a) == R(RFloor(RAdd(a, Rat(1, 2))))

\* C28: the quotes calculate_maker_prices returns are its two prices rounded
\* to the nearest multiple of tick_size, a price halfway between two ticks
\* going to the higher one, with the bid set to the ask minus one tick if
\* after the rounding it is not below the ask.
C28_QuotesRoundHalfUp ==
    ( /\ component = "quote"
      /\ quote_ret # None
      /\ quote_arg # None
      /\ quote_ret.kind = "prices" ) =>
        LET snapshot == quote_arg[1]
            half_spread == RDiv(TargetSpread(snapshot, mm_config), R(2))
            bid1 == RMul(RoundHalfUp(RDiv(RSub(MidPrice(snapshot), half_spread), tick_size)),
                         tick_size)
            ask1 == RMul(RoundHalfUp(RDiv(RAdd(MidPrice(snapshot), half_spread), tick_size)),
                         tick_size)
        IN  /\ quote_ret.ask_price = ask1
            /\ quote_ret.bid_price = IF RLe(ask1, bid1) THEN RSub(ask1, tick_size) ELSE bid1


(***************************************************************************)
(* What OrderFlowStrategy.execute_signal changes.                          *)
(***************************************************************************)
\* C29: an iteration of the live loop changes current_position,
\* active_orders, last_order_time and order_count_today only if
\* place_open_order was called and returned success, and then execute_signal
\* returns true; when the call returns failure or raises, the four fields
\* are as they were and execute_signal returns false.
C29_StateChangesOnlyOnSuccess ==
    (component = "live" /\ live_step # None) =>
        LET h == live_step[1]
            size == bt_config.position_size
        IN  /\ LiveState # h.before => (h.placed /\ h.outcome = "success")
            /\ h.executed => (h.placed /\ h.outcome = "success")
            /\ (h.placed /\ h.outcome \in {"failure", "raises"}) =>
                  /\ ~h.executed
                  /\ current_position = h.before.current_position
                  /\ active_orders = h.before.active_orders
                  /\ last_order_time = h.before.last_order_time
                  /\ order_count_today = h.before.order_count_today
            /\ (h.placed /\ h.outcome = "success") =>
                  /\ h.executed
                  /\ Len(active_orders) = Len(h.before.active_orders) + 1
                  /\ order_count_today = h.before.order_count_today + 1
                  /\ current_position =
                        IF h.signal[1].direction = "buy"
                        THEN RAdd(h.before.current_position, size)
                        ELSE RSub(h.before.current_position, size)

\* After an order that went through, a second submission raises: the
\* position and the order list are those the first order left.
C29_Witness ==
    /\ component = "live"
    /\ live_step # None
    /\ live_step[1].placed
    /\ live_step[1].outcome = "raises"
    /\ ~live_step[1].executed
    /\ Len(active_orders) = 1
    /\ order_count_today = 1
    /\ current_position # RZero
    /\ LiveState = live_step[1].before


(***************************************************************************)
(* The loop and the shutdown of the market maker: MarketMakerStrategy.run, *)
(* update_maker_orders, place_maker_order, cancel_order, monitor_positions *)
(* and shutdown, and RealTimeMarketMakerBot.shutdown which ends in the     *)
(* strategy's.  One loop iteration is one step; shutdown is a step per     *)
(* awaited call.  The timestamp of a MakerOrder is left out (nothing reads *)
(* it); order ids are numbered in the order the orders are placed.         *)
(***************************************************************************)
MaxMakerIterations == 2

\* A variant of the body of shutdown that disconnects first.
ShutdownSteps_DisconnectFirst == <<"disconnect", "cancel_buy", "cancel_sell">>

\* The awaited calls of the try block of MarketMakerStrategy.shutdown, in
\* program order.
ShutdownSteps == <<"cancel_buy", "cancel_sell", "disconnect">>

MakerOrder(order_id, side, price, quantity) ==
    [order_id |-> order_id, side |-> side, price |-> price, quantity |-> quantity]

\* An entry of the history of calls.
ExchangeCall(op, order_id, side, sent, ok) ==
    [op |-> op, order_id |-> order_id, side |-> side, sent |-> sent, ok |-> ok]

\* MarketMakerStrategy.cancel_order for an order that is present: what the
\* call did (sent: the exchange was asked) and returned (ok).  answer is what
\* exchange_client.cancel_order does when asked.
CancelOrder(order, sim, can, answer) ==
    IF sim THEN ExchangeCall("cancel_order", order.order_id, order.side, FALSE, TRUE)
    ELSE IF can
    THEN ExchangeCall("cancel_order", order.order_id, order.side, TRUE, answer = "success")
    ELSE ExchangeCall("cancel_order", order.order_id, order.side, FALSE, FALSE)

\* MarketMakerStrategy.place_maker_order: the order, or None
PlaceMakerOrder(side, price, quantity, sim, answer, order_id) ==
    IF sim \/ answer = "success" THEN Some(MakerOrder(order_id, side, price, quantity))
    ELSE None

\* the price of an active order is off the new quote by more than
\* price_update_threshold
PriceMoved(order, new_price, threshold) ==
    LET price_change_pct == IF RLt(RZero, new_price)
                            THEN RDiv(RAbs(RSub(order.price, new_price)), new_price)
                            ELSE RZero
    IN  RLt(threshold, price_change_pct)

\* the strategy fields update_maker_orders and monitor_positions work on
MakerState ==
    [ buy |-> active_buy_order, sell |-> active_sell_order,
      count |-> mm_order_count_today, calls |-> exchange_calls ]

\* the orders placed so far
PlacedCount(calls) == Cardinality({i \in 1..Len(calls) : calls[i].op = "place"})

\* Cancel the order of one side ("buy" or "sell") of S, if it has moved.
CancelIfMoved(S, side, new_price, cfg, sim, can, answer) ==
    LET order == IF side = "buy" THEN S.buy ELSE S.sell
    IN  IF order # None /\ PriceMoved(order[1], new_price, cfg.price_update_threshold)
        THEN [ S EXCEPT !.calls = Append(@, CancelOrder(order[1], sim, can, answer)),
                        !.buy = IF side = "buy" THEN None ELSE @,
                        !.sell = IF side = "sell" THEN None ELSE @ ]
        ELSE S

\* Place the order of one side of S, if there is none and the position allows.
PlaceIfMissing(S, side, new_price, cfg, inventory, sim, answer) ==
    LET order == IF side = "buy" THEN S.buy ELSE S.sell
        allowed == IF side = "buy" THEN RLt(inventory, cfg.max_position)
                   ELSE RLt(RNeg(cfg.max_position), inventory)
        order_id == PlacedCount(S.calls) + 1
        placed == PlaceMakerOrder(side, new_price, cfg.order_size, sim, answer, order_id)
    IN  IF order = None /\ allowed /\ placed # None
        THEN [ S EXCEPT !.calls = Append(@, ExchangeCall("place", order_id, side, ~sim, TRUE)),
                        !.buy = IF side = "buy" THEN placed ELSE @,
                        !.sell = IF side = "sell" THEN placed ELSE @,
                        !.count = @ + 1 ]
        ELSE S

\* MarketMakerStrategy.update_maker_orders, given the outcome q of
\* calculate_maker_prices (which is not an exception)
UpdateMakerOrders(S, q, cfg, inventory, sim, can, ans) ==
    IF q.kind = "none" THEN S
    ELSE IF q.bid_price = RZero \/ q.ask_price = RZero THEN S
    ELSE LET S1 == CancelIfMoved(S, "buy", q.bid_price, cfg, sim, can, ans.cancel_buy)
             S2 == CancelIfMoved(S1, "sell", q.ask_price, cfg, sim, can, ans.cancel_sell)
             S3 == PlaceIfMissing(S2, "buy", q.bid_price, cfg, inventory, sim, ans.place_buy)
         IN  PlaceIfMissing(S3, "sell", q.ask_price, cfg, inventory, sim, ans.place_sell)

\* MarketMakerStrategy._check_risk_limits; daily_pnl is Decimal(0), nothing
\* assigns it after __init__
MakerRiskOk(cfg) ==
    ~( /\ cfg.max_daily_loss # None
       /\ cfg.max_daily_loss[1] # RZero
       /\ RLe(RZero, RNeg(cfg.max_daily_loss[1])) )

\* MarketMakerStrategy.monitor_positions
MonitorPositions(S, cfg, sim, can, ans) ==
    IF MakerRiskOk(cfg) THEN S
    ELSE LET S1 == IF S.buy = None THEN S
                   ELSE [ S EXCEPT !.calls = Append(@, CancelOrder(S.buy[1], sim, can,
                                                                   ans.cancel_buy)),
                                   !.buy = None ]
         IN  IF S1.sell = None THEN S1
             ELSE [ S1 EXCEPT !.calls = Append(@, CancelOrder(S1.sell[1], sim, can,
                                                              ans.cancel_sell)),
                              !.sell = None ]

\* best bid / best ask the loop reads; the second and third move the quotes by
\* more than price_update_threshold against the first
MakerBboSet == { <<R(100), R(101)>>, <<R(100), Rat(10001, 100)>>, <<R(102), R(103)>> }

MakerLoopConfigSet ==
    [ spread_type : {"fixed", "percentage"},
      target_spread : {Rat(1, 10)},
      spread_ratio : {Rat(1, 2)},
      min_spread : {Rat(1, 100)},
      inventory_skew_enabled : {TRUE},
      inventory_skew_factor : {Rat(3, 10)},
      max_position : {ROne},
      order_size : {Rat(1, 10)},
      price_update_threshold : {Rat(1, 1000)},
      max_daily_loss : {None} ]

AnswerSet ==
    [ cancel_buy : {"success", "failure"}, cancel_sell : {"success"},
      place_buy : OrderOutcomeSet, place_sell : OrderOutcomeSet ]

InitMaker ==
    /\ component = "maker"
    /\ IdleLive
    /\ IdleConfirm
    /\ IdleBook
    /\ IdlePerf
    /\ IdleEngine
    /\ IdleBacktest
    /\ mm_config \in MakerLoopConfigSet
    /\ mm_current_position = RZero
    /\ tick_size = Rat(1, 100)
    /\ quote_arg = None
    /\ quote_ret = None
    /\ simulate_mode \in BOOLEAN
    /\ can_cancel \in BOOLEAN
    /\ mm_running = FALSE
    /\ active_buy_order = None
    /\ active_sell_order = None
    /\ mm_order_count_today = 0
    /\ iterations = 0
    /\ shutdown_pc = 0
    /\ exchange_calls = <<>>
    /\ at_shutdown = None
    /\ IdleFeed

makerOthers == <<component, confVars, perfVars, engineVars, backtestVars, liveVars, feedVars>>

\* the first statement of run: self.running = True
maker_run ==
    /\ component = "maker"
    /\ ~mm_running
    /\ shutdown_pc = 0
    /\ iterations = 0
    /\ mm_running' = TRUE
    /\ UNCHANGED <<makerOthers, bookVars, mm_config, mm_current_position, tick_size, quote_arg,
                   quote_ret, simulate_mode, can_cancel, active_buy_order, active_sell_order,
                   mm_order_count_today, iterations, shutdown_pc, exchange_calls, at_shutdown>>

\* one iteration of `while self.running`: update_orderbook, update_maker_orders
\* and monitor_positions.  bbo is what the exchange gives as best bid and ask,
\* None if it gives nothing.
maker_iteration(bbo, ans) ==
    /\ component = "maker"
    /\ mm_running
    /\ shutdown_pc = 0
    /\ iterations < MaxMakerIterations
    /\ \E snapshot \in {IF bbo = None THEN None ELSE Some(BboSnapshot(bbo[1]))} :
       \E q \in {CalculateMakerPrices(snapshot, mm_config, mm_current_position, tick_size)} :
         /\ current_snapshot' = IF snapshot = None THEN current_snapshot ELSE snapshot
         /\ snapshots' = IF snapshot = None THEN snapshots
                         ELSE DequeAppend(snapshots, snapshot[1], SnapshotHistoryMax)
         /\ built' = IF snapshot = None THEN built ELSE Append(built, snapshot[1])
         /\ quote_arg' = IF snapshot = None THEN quote_arg ELSE snapshot
         /\ quote_ret' = IF snapshot = None THEN quote_ret ELSE q
         /\ q.kind # "TypeError"
         /\ \E S \in {MonitorPositions(
                         UpdateMakerOrders(MakerState, q, mm_config, mm_current_position,
                                           simulate_mode, can_cancel, ans),
                         mm_config, simulate_mode, can_cancel, ans)} :
              /\ active_buy_order' = S.buy
              /\ active_sell_order' = S.sell
              /\ mm_order_count_today' = S.count
              /\ exchange_calls' = S.calls
    /\ iterations' = iterations + 1
    /\ UNCHANGED <<makerOthers, depth, query, imbalance_ret, weighted_ret, mm_config,
                   mm_current_position, tick_size, simulate_mode, can_cancel, mm_running,
                   shutdown_pc, at_shutdown>>

\* the orders that are active, by their ids
ActiveOrderIds ==
    {o.order_id : o \in {x[1] : x \in {active_buy_order, active_sell_order} \ {None}}}

\* MarketMakerStrategy.shutdown begins (the finally clause of run)
shutdown ==
    /\ component = "maker"
    /\ mm_running
    /\ shutdown_pc = 0
    /\ mm_running' = FALSE
    /\ shutdown_pc' = 1
    /\ at_shutdown' = Some([orders |-> ActiveOrderIds, from |-> Len(exchange_calls)])
    /\ UNCHANGED <<makerOthers, bookVars, mm_config, mm_current_position, tick_size, quote_arg,
                   quote_ret, simulate_mode, can_cancel, active_buy_order, active_sell_order,
                   mm_order_count_today, iterations, exchange_calls>>

\* RealTimeMarketMakerBot.shutdown: the market-data sockets are closed
\* (ws is "none" without a ws_manager), then the strategy's shutdown begins;
\* if closing the sockets raises, the strategy's shutdown is not called.
bot_shutdown(ws) ==
    /\ component = "maker"
    /\ mm_running
    /\ shutdown_pc = 0
    /\ mm_running' = FALSE
    /\ exchange_calls' = IF ws = "none" THEN exchange_calls
                         ELSE Append(exchange_calls,
                                     ExchangeCall("ws_disconnect_all", 0, "", TRUE, ws = "success"))
    /\ IF ws = "raises"
       THEN /\ shutdown_pc' = Len(ShutdownSteps) + 1
            /\ at_shutdown' = at_shutdown
       ELSE /\ shutdown_pc' = 1
            /\ at_shutdown' = Some([orders |-> ActiveOrderIds, from |-> Len(exchange_calls')])
    /\ UNCHANGED <<makerOthers, bookVars, mm_config, mm_current_position, tick_size, quote_arg,
                   quote_ret, simulate_mode, can_cancel, active_buy_order, active_sell_order,
                   mm_order_count_today, iterations>>

InShutdown(step) ==
    /\ component = "maker"
    /\ shutdown_pc \in 1..Len(ShutdownSteps)
    /\ ShutdownSteps[shutdown_pc] = step

shutdownUnchanged ==
    <<makerOthers, bookVars, mm_config, mm_current_position, tick_size, quote_arg,
      quote_ret, simulate_mode, can_cancel, mm_running, active_buy_order, active_sell_order,
      mm_order_count_today, iterations, at_shutdown>>

\* if self.active_buy_order: await self.cancel_order(self.active_buy_order)
shutdown_cancel_buy(answer) ==
    /\ InShutdown("cancel_buy")
    /\ exchange_calls' = IF active_buy_order = None THEN exchange_calls
                         ELSE Append(exchange_calls,
                                     CancelOrder(active_buy_order[1], simulate_mode,
                                                 can_cancel, answer))
    /\ shutdown_pc' = shutdown_pc + 1
    /\ UNCHANGED shutdownUnchanged

\* if self.active_sell_order: await self.cancel_order(self.active_sell_order)
shutdown_cancel_sell(answer) ==
    /\ InShutdown("cancel_sell")
    /\ exchange_calls' = IF active_sell_order = None THEN exchange_calls
                         ELSE Append(exchange_calls,
                                     CancelOrder(active_sell_order[1], simulate_mode,
                                                 can_cancel, answer))
    /\ shutdown_pc' = shutdown_pc + 1
    /\ UNCHANGED shutdownUnchanged

\* await self.exchange_client.disconnect(); an exception is logged
shutdown_disconnect(answer) ==
    /\ InShutdown("disconnect")
    /\ exchange_calls' = Append(exchange_calls,
                                ExchangeCall("disconnect", 0, "", TRUE, answer = "success"))
    /\ shutdown_pc' = shutdown_pc + 1
    /\ UNCHANGED shutdownUnchanged

ShutdownStep ==
    \/ \E answer \in OrderOutcomeSet : shutdown_cancel_buy(answer)
    \/ \E answer \in OrderOutcomeSet : shutdown_cancel_sell(answer)
    \/ \E answer \in {"success", "raises"} : shutdown_disconnect(answer)

NextMaker ==
    \/ maker_run
    \/ \E bbo \in {None} \cup {Some(b) : b \in MakerBboSet}, ans \in AnswerSet :
          maker_iteration(bbo, ans)
    \/ shutdown
    \/ \E ws \in {"none", "success", "raises"} : bot_shutdown(ws)
    \/ ShutdownStep

\* Each awaited call of shutdown returns or raises: a shutdown that has begun
\* takes its next step.
SpecMaker == InitMaker /\ [][NextMaker]_vars /\ WF_vars(ShutdownStep)

\* a cancel_order call for order o is among the calls lo..hi of the history
CancelIssued(o, lo, hi) ==
    \E j \in lo..hi : exchange_calls[j].op = "cancel_order" /\ exchange_calls[j].order_id = o

\* every disconnect of the exchange client since shutdown began comes after a
\* cancel_order call for each order that was active when it began
DisconnectOnlyAfterCancels ==
    at_shutdown # None =>
        \A i \in (at_shutdown[1].from + 1)..Len(exchange_calls) :
            exchange_calls[i].op = "disconnect" =>
                \A o \in at_shutdown[1].orders : CancelIssued(o, at_shutdown[1].from + 1, i - 1)

\* since shutdown began a cancel_order call has been made for each order that
\* was active when it began
CancelsIssued ==
    /\ at_shutdown # None
    /\ \A o \in at_shutdown[1].orders :
           CancelIssued(o, at_shutdown[1].from + 1, Len(exchange_calls))

\* C30: once MarketMakerStrategy.shutdown has begun, cancel_order is called
\* for every order (buy and sell) that was active when it began, and the
\* exchange client is disconnected only after those calls: no disconnect
\* comes before the cancel of an order that was outstanding.
C30_CancelsBeforeDisconnect ==
    /\ []DisconnectOnlyAfterCancels
    /\ (at_shutdown # None) ~> CancelsIssued

\* shutdown found a buy and a sell order on the exchange; the history ends
\* with the cancel of the buy order, the cancel of the sell order and the
\* disconnect.
C30_Witness ==
    /\ component = "maker"
    /\ ~simulate_mode
    /\ can_cancel
    /\ shutdown_pc = Len(ShutdownSteps) + 1
    /\ at_shutdown # None
    /\ Cardinality(at_shutdown[1].orders) = 2
    /\ Len(exchange_calls) >= 3
    /\ LET n == Len(exchange_calls)
       IN  /\ exchange_calls[n].op = "disconnect"
           /\ exchange_calls[n - 1].op = "cancel_order"
           /\ exchange_calls[n - 1].side = "sell"
           /\ exchange_calls[n - 1].sent
           /\ exchange_calls[n - 2].op = "cancel_order"
           /\ exchange_calls[n - 2].side = "buy"


(***************************************************************************)
(* The orders of the market maker that rest at the exchange.               *)
(***************************************************************************)
\* The placements the exchange accepted and has not cancelled since: a
\* cancel_order call that was not sent, or that the exchange did not carry
\* out, leaves the order where it is.
RestingOrders(calls) ==
    { i \in 1..Len(calls) :
        /\ calls[i].op = "place"
        /\ calls[i].sent
        /\ ~\E j \in (i + 1)..Len(calls) :
               /\ calls[j].op = "cancel_order"
               /\ calls[j].order_id = calls[i].order_id
               /\ calls[j].sent
               /\ calls[j].ok }

\* C31: between two quoting cycles every order resting at the exchange is
\* the strategy's active_buy_order or active_sell_order, and no two orders
\* rest on one side, whatever the place and cancel calls answered.
C31_NoOrphanNoDuplicate ==
    (component = "maker" /\ shutdown_pc = 0) =>
        /\ \A i \in RestingOrders(exchange_calls) :
               exchange_calls[i].order_id \in ActiveOrderIds
        /\ \A i, j \in RestingOrders(exchange_calls) :
               exchange_calls[i].side = exchange_calls[j].side => i = j

\* ---------------------------------------------------------------------------
\* The live bots' order book feed: the WebSocket callback applies depth
\* messages to bot.order_book and publishes an OrderBookSnapshot to the
\* strategy's analyzer; the quoting loop reads that snapshot.
\* ---------------------------------------------------------------------------

MaxFeedUpdates == 3

\* the statements of _update_orderbook_data, in program order
UpdateSteps_PublishEarly == <<"apply_bids", "set_best", "publish", "apply_asks">>

UpdateSteps == <<"apply_bids", "apply_asks", "set_best", "publish">>

\* one level of a depth message applied to one side of the book:
\* size > 0 sets the price's size, otherwise the price is removed
ApplyLevel(side, level) ==
    IF RLt(RZero, level[2])
    THEN { l \in side : l[1] # level[1] } \cup { level }
    ELSE { l \in side : l[1] # level[1] }

RECURSIVE ApplyLevels(_, _)
ApplyLevels(side, levels) ==
    IF levels = <<>> THEN side
    ELSE ApplyLevels(ApplyLevel(side, Head(levels)), Tail(levels))

\* sorted(side.items()) and sorted(side.items(), reverse=True)
RECURSIVE SortedLevels(_, _)
SortedLevels(side, reverse) ==
    IF side = {} THEN <<>>
    ELSE LET first == CHOOSE l \in side :
                          \A m \in side : IF reverse THEN RLe(m[1], l[1]) ELSE RLe(l[1], m[1])
         IN  <<first>> \o SortedLevels(side \ {first}, reverse)

\* the fields of the bot that _update_orderbook_data touches
FeedState ==
    [ order_book |-> order_book, best_bid |-> best_bid, best_ask |-> best_ask,
      order_book_ready |-> order_book_ready, current_snapshot |-> current_snapshot ]

\* update_strategy_orderbook: the snapshot is built from the book and assigned
\* to the analyzer in one reference assignment
UpdateStrategyOrderbook(F, d) ==
    LET bids == FirstK(SortedLevels(F.order_book.bids, TRUE), d)
        asks == FirstK(SortedLevels(F.order_book.asks, FALSE), d)
    IN  IF bids # <<>> /\ asks # <<>> /\ F.best_bid # None /\ F.best_ask # None
        THEN [ F EXCEPT !.current_snapshot =
                   Some([ MakeSnapshot(bids, asks, d) EXCEPT !.best_bid = F.best_bid[1],
                                                             !.best_ask = F.best_ask[1] ]) ]
        ELSE F

\* one statement group of _update_orderbook_data
UpdateStep(F, data, d, step) ==
    CASE step = "apply_bids" ->
           [ F EXCEPT !.order_book.bids = ApplyLevels(@, data.bids) ]
      [] step = "apply_asks" ->
           [ F EXCEPT !.order_book.asks = ApplyLevels(@, data.asks) ]
      [] step = "set_best" ->
           LET bb == IF F.order_book.bids # {}
                     THEN Some(SortedLevels(F.order_book.bids, TRUE)[1][1]) ELSE F.best_bid
               ba == IF F.order_book.asks # {}
                     THEN Some(SortedLevels(F.order_book.asks, FALSE)[1][1]) ELSE F.best_ask
           IN  [ F EXCEPT !.best_bid = bb, !.best_ask = ba,
                          !.order_book_ready = @ \/ (bb # None /\ ba # None) ]
      [] step = "publish" -> UpdateStrategyOrderbook(F, d)

\* _update_orderbook_data from statement group i to its end
RECURSIVE UpdateOrderbookData(_, _, _, _)
UpdateOrderbookData(F, data, d, i) ==
    IF i > Len(UpdateSteps) THEN F
    ELSE UpdateOrderbookData(UpdateStep(F, data, d, UpdateSteps[i]), data, d, i + 1)

\* the depth messages of the feed: a SNAPSHOT and CHANGED messages that move
\* both sides of the book
FeedUpdateSet ==
    { [ bids |-> <<<<R(100), R(5)>>, <<R(99), R(5)>>>>,
        asks |-> <<<<R(101), R(5)>>, <<R(102), R(5)>>>> ],
      [ bids |-> <<<<R(100), RZero>>, <<R(98), R(5)>>>>,
        asks |-> <<<<R(101), RZero>>, <<R(103), R(5)>>>> ],
      [ bids |-> <<<<R(101), R(3)>>>>,
        asks |-> <<<<R(101), RZero>>, <<R(102), RZero>>, <<R(104), R(4)>>>> ] }

InitFeed ==
    /\ component = "feed"
    /\ IdleLive
    /\ IdleConfirm
    /\ IdlePerf
    /\ IdleEngine
    /\ IdleBacktest
    /\ depth = 2
    /\ snapshots = <<>>
    /\ current_snapshot = None
    /\ query = None
    /\ imbalance_ret = None
    /\ weighted_ret = None
    /\ built = <<>>
    /\ mm_config \in MakerLoopConfigSet
    /\ mm_current_position = RZero
    /\ tick_size = Rat(1, 100)
    /\ quote_arg = None
    /\ quote_ret = None
    /\ simulate_mode = TRUE
    /\ can_cancel = TRUE
    /\ mm_running = TRUE
    /\ active_buy_order = None
    /\ active_sell_order = None
    /\ mm_order_count_today = 0
    /\ iterations = 0
    /\ shutdown_pc = 0
    /\ exchange_calls = <<>>
    /\ at_shutdown = None
    /\ via_loop \in BOOLEAN
    /\ order_book = [bids |-> {}, asks |-> {}]
    /\ best_bid = None
    /\ best_ask = None
    /\ order_book_ready = FALSE
    /\ update_pc = 0
    /\ pending = None
    /\ applied = <<>>
    /\ read = None

feedOthers == <<component, confVars, perfVars, engineVars, backtestVars, liveVars, depth,
                snapshots, query, imbalance_ret, weighted_ret, built, mm_config,
                mm_current_position, tick_size, simulate_mode, can_cancel, mm_running,
                shutdown_pc, at_shutdown, via_loop>>

feedBot == <<quote_arg, quote_ret, active_buy_order, active_sell_order, mm_order_count_today,
             iterations, exchange_calls, read>>

SetFeedState(F) ==
    /\ order_book' = F.order_book
    /\ best_bid' = F.best_bid
    /\ best_ask' = F.best_ask
    /\ order_book_ready' = F.order_book_ready
    /\ current_snapshot' = F.current_snapshot

\* handle_order_book_update when the saved event loop is running: the update is
\* a task of that loop and _update_orderbook_data, which never awaits, runs to
\* its end between two steps of the quoting coroutine
async_update_orderbook(order_book_data) ==
    /\ component = "feed"
    /\ via_loop
    /\ Len(applied) < MaxFeedUpdates
    /\ SetFeedState(UpdateOrderbookData(FeedState, order_book_data, depth, 1))
    /\ applied' = Append(applied, order_book_data)
    /\ UNCHANGED <<feedOthers, feedBot, update_pc, pending>>

\* handle_order_book_update when the saved event loop is not running: the
\* WebSocket thread enters _update_orderbook_data itself
handle_order_book_update(order_book_data) ==
    /\ component = "feed"
    /\ ~via_loop
    /\ update_pc = 0
    /\ Len(applied) < MaxFeedUpdates
    /\ pending' = Some(order_book_data)
    /\ update_pc' = 1
    /\ UNCHANGED <<feedOthers, feedBot, order_book, best_bid, best_ask, order_book_ready,
                   current_snapshot, applied>>

\* the WebSocket thread executes its next statement group of
\* _update_orderbook_data
update_orderbook_data_step ==
    /\ component = "feed"
    /\ update_pc > 0
    /\ SetFeedState(UpdateStep(FeedState, pending[1], depth, UpdateSteps[update_pc]))
    /\ IF update_pc = Len(UpdateSteps)
       THEN /\ update_pc' = 0
            /\ pending' = None
            /\ applied' = Append(applied, pending[1])
       ELSE /\ update_pc' = update_pc + 1
            /\ UNCHANGED <<pending, applied>>
    /\ UNCHANGED <<feedOthers, feedBot>>

\* one cycle of the bot's main loop over the WebSocket book: the bot's
\* update_maker_orders reads analyzer.current_snapshot and hands it to the
\* strategy's update_maker_orders; then monitor_positions
quoting_cycle(ans) ==
    /\ component = "feed"
    /\ order_book_ready
    /\ iterations < MaxMakerIterations
    /\ read' = current_snapshot
    /\ \E q \in {CalculateMakerPrices(current_snapshot, mm_config, mm_current_position,
                                     tick_size)} :
         /\ quote_arg' = current_snapshot
         /\ quote_ret' = q
         /\ q.kind # "TypeError"
         /\ \E S \in {MonitorPositions(
                         UpdateMakerOrders(MakerState, q, mm_config, mm_current_position,
                                           simulate_mode, can_cancel, ans),
                         mm_config, simulate_mode, can_cancel, ans)} :
              /\ active_buy_order' = S.buy
              /\ active_sell_order' = S.sell
              /\ mm_order_count_today' = S.count
              /\ exchange_calls' = S.calls
    /\ iterations' = iterations + 1
    /\ UNCHANGED <<feedOthers, order_book, best_bid, best_ask, order_book_ready,
                   current_snapshot, update_pc, pending, applied>>

NextFeed ==
    \/ \E order_book_data \in FeedUpdateSet : async_update_orderbook(order_book_data)
    \/ \E order_book_data \in FeedUpdateSet : handle_order_book_update(order_book_data)
    \/ update_orderbook_data_step
    \/ \E ans \in AnswerSet : quoting_cycle(ans)

SpecFeed == InitFeed /\ [][NextFeed]_vars

\* the book after every message of updates has been applied whole
RECURSIVE CompleteBook(_)
CompleteBook(updates) ==
    IF updates = <<>> THEN [bids |-> {}, asks |-> {}]
    ELSE LET book == CompleteBook(SubSeq(updates, 1, Len(updates) - 1))
             data == updates[Len(updates)]
         IN  [ bids |-> ApplyLevels(book.bids, data.bids),
               asks |-> ApplyLevels(book.asks, data.asks) ]

\* the messages received so far, the one being applied included
ReceivedUpdates == IF pending = None THEN applied ELSE Append(applied, pending[1])

\* snapshot shows the book as it is after a whole number of messages
ReflectsCompleteUpdates(snapshot) ==
    \E k \in 1..Len(ReceivedUpdates) :
        LET book == CompleteBook(SubSeq(ReceivedUpdates, 1, k))
        IN  /\ snapshot.bids = MakeSnapshot(SortedLevels(book.bids, TRUE), <<>>, depth).bids
            /\ snapshot.asks = MakeSnapshot(<<>>, SortedLevels(book.asks, FALSE), depth).asks
            /\ snapshot.bids # <<>> /\ snapshot.best_bid = snapshot.bids[1].price
            /\ snapshot.asks # <<>> /\ snapshot.best_ask = snapshot.asks[1].price

RunningPeak(curve, i) == CHOOSE e \in { curve[j] : j \in 1..i } : \A j \in 1..i : RLe(curve[j], e)

\* (peak - equity) / peak at point i of the curve
DrawdownAt(curve, i) == RDiv(RSub(RunningPeak(curve, i), curve[i]), RunningPeak(curve, i))

\* the largest drawdown over the curve
LargestDrawdown(curve) ==
    CHOOSE d \in { DrawdownAt(curve, i) : i \in 1..Len(curve) } :
        \A i \in 1..Len(curve) : RLe(DrawdownAt(curve, i), d)

\* the points at which the largest drawdown is reached
DeepestPoints(curve) == { i \in 1..Len(curve) : DrawdownAt(curve, i) = LargestDrawdown(curve) }

\* the point of the peak that precedes point i: the last point up to i where
\* the equity is at its running maximum
PeakBefore(curve, i) ==
    CHOOSE p \in 1..i : /\ curve[p] = RunningPeak(curve, i)
                        /\ \A q \in (p + 1)..i : curve[q] # RunningPeak(curve, i)

\* the first point at which the curve reaches the running maximum of point i
FirstPeakBefore(curve, i) ==
    CHOOSE p \in 1..i : /\ curve[p] = RunningPeak(curve, i)
                        /\ \A q \in 1..(p - 1) : curve[q] # RunningPeak(curve, i)

\* the last point of the drawdown that point i belongs to: the point before the
\* next new peak, or the end of the curve
EndOfDrawdown(curve, i) ==
    CHOOSE e \in i..Len(curve) :
        /\ \A q \in i..e : RLe(curve[q], RunningPeak(curve, i))
        /\ e < Len(curve) => RLt(RunningPeak(curve, i), curve[e + 1])

\* every reading of "the time elapsed since the peak that preceded that
\* drawdown": from the first or the last point at that peak, to the deepest
\* point or to any later point of the same drawdown
TimeSincePeak(curve, ts) ==
    IF LargestDrawdown(curve) = RZero THEN {0}
    ELSE { ts[j].timestamp - ts[p].timestamp :
             <<p, j>> \in UNION { { <<p, j>> : p \in {PeakBefore(curve, i),
                                                     FirstPeakBefore(curve, i)},
                                              j \in i..EndOfDrawdown(curve, i) } :
                                  i \in DeepestPoints(curve) } }

\* the max_drawdown half of C33: max_drawdown is the largest (peak - equity) /
\* peak over the equity curve built from the initial balance by cumulative pnl,
\* peak being the running maximum
DrawdownIsLargest ==
    (component = "perf" /\ perf_metrics # None /\ perf_trades # <<>>)
    => perf_metrics[1].max_drawdown =
           LargestDrawdown(EquityCurve(perf_trades, R(DefaultInitialBalance)))

\* C33: max_drawdown is the largest (peak - equity) / peak over the equity
\* curve rebuilt from the initial balance by cumulative pnl, peak being the
\* running maximum equity, and max_drawdown_duration is the time elapsed since
\* the peak that preceded that drawdown
C33_DrawdownAndDuration ==
    /\ DrawdownIsLargest
    /\ (component = "perf" /\ perf_metrics # None /\ perf_trades # <<>>)
       => perf_metrics[1].max_drawdown_duration \in
              TimeSincePeak(EquityCurve(perf_trades, R(DefaultInitialBalance)), perf_trades)

\* ---------------------------------------------------------------------------
\* The balance of a finished backtest against the pnl of its records
\* ---------------------------------------------------------------------------

\* the sum of pnl over the TradeRecords of the result
RecordedPnl(ts) == RSum([i \in 1..Len(ts) |-> ts[i].pnl])

\* C34: after BacktestEngine.run completes, final_balance - initial_balance
\* equals the sum of pnl over all TradeRecords (the total_pnl of the metrics),
\* for any sequence of long and short round trips
C34_BalanceChangeIsTotalPnl ==
    (component = "backtest" /\ result # None)
    => /\ result[1].metrics.total_pnl = RecordedPnl(result[1].trades)
       /\ RSub(result[1].final_balance, result[1].initial_balance)
              = RecordedPnl(result[1].trades)

\* ---------------------------------------------------------------------------
\* Historical trades in the TradeFlowMonitor's window during a backtest
\* ---------------------------------------------------------------------------

\* C35: during BacktestEngine.run each historical trade is added to the
\* TradeFlowMonitor at most once: the monitor's window never holds two entries
\* for the same historical trade and its size never exceeds the number of
\* historical trades
C35_TradeAddedAtMostOnce ==
    (component = "backtest")
    => /\ \A i, j \in 1..Len(monitor_trades) :
              monitor_trades[i].trade_id = monitor_trades[j].trade_id => i = j
       /\ Len(monitor_trades) <= Len(data_trades)

\* ---------------------------------------------------------------------------
\* The position limit with a position_size that does not divide max_position
\* ---------------------------------------------------------------------------

\* configurations whose max_position is one and a half times the position_size,
\* next to one whose max_position is twice the position_size
NonDividingBacktestConfigSet ==
    [ imbalance_threshold : {Rat(6, 10)},
      trade_flow_window : {60},
      large_order_threshold : {R(50000)},
      position_size : {Rat(1, 10)},
      max_position : {Rat(3, 20), Rat(1, 5)} ]

NonDividingLiveConfigSet ==
    [ imbalance_threshold : {Rat(6, 10)},
      trade_flow_window : {60},
      large_order_threshold : {R(50000)},
      position_size : {Rat(1, 10)},
      max_position : {Rat(3, 20), Rat(1, 5)},
      max_daily_loss : {R(100)},
      max_orders_per_minute : {6} ]

SpecLimits ==
    /\ InitBacktestWith(NonDividingBacktestConfigSet) \/ InitLiveWith(NonDividingLiveConfigSet)
    /\ [][NextBacktest \/ NextLive]_vars

\* C36: after any sequence of executed signals |current_position| <=
\* max_position holds in BacktestEngine and in OrderFlowStrategy, for any
\* position_size > 0, also one that does not evenly divide max_position
C36_PositionWithinLimit ==
    (component \in {"backtest", "live"})
    => RLe(RAbs(current_position), bt_config.max_position)

\* the same bound when position_size divides max_position
PositionWithinLimitWhenDividing ==
    (component \in {"backtest", "live"} /\ bt_config.max_position = Rat(1, 5))
    => RLe(RAbs(current_position), bt_config.max_position)

\* ---------------------------------------------------------------------------
\* Confirmation across ticks of the run loop
\* ---------------------------------------------------------------------------

\* the tick of BacktestEngine.run recorded in step generated no signal
TickWithoutSignal(step) == step # None /\ step[1].kind = "none" /\ step[1].signal = None

\* the tick recorded in step confirmed its signal (and called _execute_signal)
TickConfirmed(step) == step # None /\ step[1].kind = "execute"

\* C37: a confirmation is formed only from signals generated on consecutive
\* ticks: if one of the last confirmation_ticks ticks generated no signal, no
\* signal is confirmed on the current tick.  With confirmation_ticks = 2 the
\* last ticks are the current one and the one before it.
C37_ConfirmOnlyOnConsecutiveTicks ==
    [][ ( /\ component = "backtest"
          /\ confirmation_ticks = 2
          /\ processed' = processed + 1
          /\ TickWithoutSignal(last_step) \/ TickWithoutSignal(last_step') )
        => ~TickConfirmed(last_step') ]_vars

\* the tick recorded in step executed its confirmed signal: _execute_signal
\* reached the fill
TickExecuted(step) == TickConfirmed(step) /\ step[1].opened

\* C38: after a confirmed signal has been executed the next execution needs a
\* fresh run of confirmation_ticks signals generated after that execution; the
\* signals that confirmed one execution are not used again.  With
\* confirmation_ticks = 2 the tick after an execution can therefore not
\* execute.
C38_FreshSignalsForNextExecution ==
    [][ ( /\ component = "backtest"
          /\ confirmation_ticks = 2
          /\ processed' = processed + 1
          /\ TickExecuted(last_step) )
        => ~TickExecuted(last_step') ]_vars

\* ---------------------------------------------------------------------------
\* PreciseBacktestEngine: the position in units of position_size, and the cash
\* ---------------------------------------------------------------------------

\* x is an integer multiple of unit
IsMultipleOf(x, unit) == RDiv(x, unit)[2] = 1

\* the call recorded in last_call was an executed fill of execute_trade that
\* met a position of the opposite direction
OppositeFill(call) ==
    /\ call.op = "execute_trade"
    /\ call.ok
    /\ \/ call.direction = "buy" /\ RLt(call.before.position, RZero)
       \/ call.direction = "sell" /\ RLt(RZero, call.before.position)

\* C39: with a fixed position_size the position of PreciseBacktestEngine is,
\* after any sequence of execute_trade calls and stop-loss / take-profit
\* closes, an integer multiple of position_size; hence a fill that meets an
\* opposite position closes exactly position_size of it, and the branches
\* that open a new position with the remaining size are never taken (the
\* position moves towards zero by position_size and does not change sign)
C39_PositionMultipleOfSize ==
    (component = "precise")
    => /\ IsMultipleOf(position, position_size)
       /\ (last_call # None /\ OppositeFill(last_call[1]))
          => /\ RLe(position_size, RAbs(last_call[1].before.position))
             /\ RAbs(position) = RSub(RAbs(last_call[1].before.position), position_size)
             /\ \/ position = RZero
                \/ RLt(RZero, position) <=> RLt(RZero, last_call[1].before.position)

\* a sell has met a long position of two position_size and closed one of them
C39_Witness ==
    /\ component = "precise"
    /\ last_call # None
    /\ OppositeFill(last_call[1])
    /\ last_call[1].direction = "sell"
    /\ last_call[1].before.position = RMul(R(2), position_size)
    /\ position = position_size
    /\ stop_loss_triggered + take_profit_triggered = 0

\* C40: in PreciseBacktestEngine cash never becomes negative after any
\* sequence of fills, the forced stop-loss / take-profit closes of short
\* positions included
C40_CashNeverNegative ==
    (component = "precise") => RLe(RZero, cash)

\* the same bound over the fills of execute_trade alone
CashNeverNegativeWithoutForcedClose ==
    (component = "precise" /\ stop_loss_triggered + take_profit_triggered = 0)
    => RLe(RZero, cash)

====
